---- MODULE Spec2Model ----
(***************************************************************************)
(* Model of the CSV transformation engine (DataDeleterImpl and             *)
(* DataTransformerImpl of src/src/transformers/DataTransformer.ts) with    *)
(* the error taxonomy of src/src/utils/ErrorHandler.ts.                    *)
(*                                                                         *)
(* Arrays are heap objects: a table holds a reference to its header array  *)
(* and a reference to its array of row references, as in the TypeScript    *)
(* code, so that copying and aliasing of arrays are visible in the state.  *)
(***************************************************************************)
EXTENDS Integers, Sequences, FiniteSets, TLC

(* ------------------------------ bounds --------------------------------- *)

\* The largest number of rows of an input table.
MaxRows == 2

(* ----------------------------- universes ------------------------------- *)

\* Header names of input tables, in the order the columns appear; an input
\* table has a prefix of them as its headers (pairwise distinct, as the parser
\* delivers them).
HeaderUniverse == <<"a", "b">>

\* Cell values of input tables; "" is the empty cell.
CellValues == {"", "x"}

(* ------------------------- sequence helpers ---------------------------- *)

Range(s) == {s[i] : i \in 1..Len(s)}

Max(S) == CHOOSE m \in S : \A n \in S : n <= m

Min2(m, n) == IF m <= n THEN m ELSE n

RECURSIVE Flatten(_)
Flatten(ss) == IF ss = <<>> THEN <<>> ELSE Head(ss) \o Flatten(Tail(ss))

\* All sequences over S of length at most n.
SeqsUpTo(S, n) == UNION {[1..k -> S] : k \in 0..n}

IsDistinct(s) == \A i, j \in 1..Len(s) : s[i] = s[j] => i = j

(* ------------------------------- heap ---------------------------------- *)
(* strs: the string arrays (header arrays and rows); lists: the arrays of  *)
(* row references. A reference is an index into one of the two.            *)

EmptyHeap == [strs |-> <<>>, lists |-> <<>>]

NoRef == [headers |-> 0, rows |-> 0]

\* A table with the given headers and rows, freshly constructed.
Load(t) ==
  [strs |-> <<t.headers>> \o t.rows,
   lists |-> << [i \in 1..Len(t.rows) |-> i + 1] >>]

LoadedRef == [headers |-> 1, rows |-> 1]

\* The value a table reference denotes: its headers and its rows, cell by cell.
TableVal(h, ref) ==
  [headers |-> h.strs[ref.headers],
   rows |-> [i \in 1..Len(h.lists[ref.rows]) |-> h.strs[h.lists[ref.rows][i]]]]

\* Allocation of new string arrays; the new references are Len(h.strs) + i.
NewStrs(h, arrs) == [h EXCEPT !.strs = @ \o arrs]

NewStrRefs(h, arrs) == [i \in 1..Len(arrs) |-> Len(h.strs) + i]

NewList(h, l) == [h EXCEPT !.lists = Append(@, l)]

NewListRef(h) == Len(h.lists) + 1

RECURSIVE WriteStrs(_, _, _)
\* In-place assignment of the arrays at the given references.
WriteStrs(h, refs, arrs) ==
  IF refs = <<>> THEN h
  ELSE WriteStrs([h EXCEPT !.strs[Head(refs)] = Head(arrs)], Tail(refs), Tail(arrs))

(* ------------------------------ errors --------------------------------- *)

NoErr == [code |-> "", tmpl |-> "", names |-> <<>>]

\* Message templates of the engine and whether their fixed text contains the
\* two markers handleTransformationError looks for.
HasRetsu(tmpl) == tmpl \in {"columnOrderMissing", "fixedDuplicate"}

HasMitsukarimasen(tmpl) == tmpl \in {"columnOrderMissing"}

handleTransformationError(tmpl, names) ==
  [code |-> IF HasRetsu(tmpl) /\ HasMitsukarimasen(tmpl)
            THEN "MISSING_COLUMN" ELSE "TRANSFORMATION_ERROR",
   tmpl |-> tmpl,
   names |-> names]

Thrown(h, e) == [heap |-> h, ok |-> FALSE, out |-> NoRef, err |-> e]

Returned(h, ref) == [heap |-> h, ok |-> TRUE, out |-> ref, err |-> NoErr]

(* ----------------------- shared engine helpers ------------------------- *)

\* headerIndexMap.get(name): the position of the header, 0 for undefined. The
\* map is filled by forEach/set, so a later column of the same name wins.
HeaderIndex(headers, name) ==
  LET S == {i \in 1..Len(headers) : headers[i] = name}
  IN IF S = {} THEN 0 ELSE Max(S)

\* row[index] || ""
CellOrEmpty(row, index) == IF index \in 1..Len(row) THEN row[index] ELSE ""

(* ------------------------------ deleteRows ----------------------------- *)
(* A condition is [column, isList, values]: value is values[1] when it is  *)
(* a single string and the list values when it is an array.                *)

ConditionMatches(headers, row, condition) ==
  LET columnIndex == HeaderIndex(headers, condition.column)
  IN IF columnIndex = 0 THEN FALSE
     ELSE LET cellValue == CellOrEmpty(row, columnIndex)
          IN IF condition.isList
             THEN cellValue \in Range(condition.values)
             ELSE cellValue = condition.values[1]

MatchesAllConditions_any(headers, row, conditions) ==
  \E k \in 1..Len(conditions) : ConditionMatches(headers, row, conditions[k])

MatchesAllConditions(headers, row, conditions) ==
  \A k \in 1..Len(conditions) : ConditionMatches(headers, row, conditions[k])

MissingConditionColumns(headers, conditions) ==
  SelectSeq([k \in 1..Len(conditions) |-> conditions[k].column],
            LAMBDA column : HeaderIndex(headers, column) = 0)

deleteRows(h, data, conditions) ==
  LET headers == h.strs[data.headers]
      rowRefs == h.lists[data.rows]
      missingColumns == MissingConditionColumns(headers, conditions)
  IN IF missingColumns # <<>>
     THEN Thrown(h, handleTransformationError("deleteMissing", missingColumns))
     ELSE LET filteredRows ==
                SelectSeq(rowRefs,
                          LAMBDA r : ~MatchesAllConditions(headers, h.strs[r], conditions))
              h1 == NewList(h, filteredRows)
              h2 == NewStrs(h1, <<headers>>)
          IN Returned(h2, [headers |-> Len(h1.strs) + 1, rows |-> NewListRef(h)])

(* ---------------------------- reorderColumns --------------------------- *)

MissingOrderColumns(headers, order) ==
  SelectSeq(order, LAMBDA col : col \notin Range(headers))

ColumnIndices_positional(headers, order) == [k \in 1..Len(order) |-> k]

ColumnIndices(headers, order) ==
  [k \in 1..Len(order) |-> HeaderIndex(headers, order[k])]

ProjectRow_whole(row, columnIndices) == row

ProjectRow(row, columnIndices) ==
  [k \in 1..Len(columnIndices) |-> CellOrEmpty(row, columnIndices[k])]

reorderColumns(h, data, order) ==
  LET headers == h.strs[data.headers]
      rowRefs == h.lists[data.rows]
      missingColumns == MissingOrderColumns(headers, order)
  IN IF missingColumns # <<>>
     THEN Thrown(h, handleTransformationError("columnOrderMissing", missingColumns))
     ELSE LET columnIndices == ColumnIndices(headers, order)
              reorderedRows == [i \in 1..Len(rowRefs) |->
                                  ProjectRow(h.strs[rowRefs[i]], columnIndices)]
              h1 == NewStrs(h, <<order>> \o reorderedRows)
              h2 == NewList(h1, [i \in 1..Len(rowRefs) |-> Len(h.strs) + 1 + i])
          IN Returned(h2, [headers |-> Len(h.strs) + 1, rows |-> NewListRef(h1)])

(* ----------------------------- replaceValues --------------------------- *)
(* replacements is the entry list of the object: [column, map], map being  *)
(* the entry list [from, to] of the column's own object.                   *)

HasOwnProperty(map, value) == \E k \in 1..Len(map) : map[k].from = value

Lookup(map, value) == map[CHOOSE k \in 1..Len(map) : map[k].from = value].to

ReplaceCell_chained(row, columnIndex, map) ==
  IF columnIndex \in 1..Len(row) /\ HasOwnProperty(map, row[columnIndex])
  THEN LET once == Lookup(map, row[columnIndex])
       IN [row EXCEPT ![columnIndex] =
             IF HasOwnProperty(map, once) THEN Lookup(map, once) ELSE once]
  ELSE row

ReplaceCell(row, columnIndex, map) ==
  IF columnIndex \in 1..Len(row) /\ HasOwnProperty(map, row[columnIndex])
  THEN [row EXCEPT ![columnIndex] = Lookup(map, row[columnIndex])]
  ELSE row

RECURSIVE ApplyReplacements(_, _, _)
ApplyReplacements(headers, rows, replacements) ==
  IF replacements = <<>> THEN rows
  ELSE LET columnIndex == HeaderIndex(headers, Head(replacements).column)
           next == IF columnIndex = 0 THEN rows
                   ELSE [i \in 1..Len(rows) |->
                           ReplaceCell(rows[i], columnIndex, Head(replacements).map)]
       IN ApplyReplacements(headers, next, Tail(replacements))

CopyRows_alias(h, rowRefs) == [heap |-> h, refs |-> rowRefs]

\* data.rows.map((row) => [...row])
CopyRows(h, rowRefs) ==
  LET arrs == [i \in 1..Len(rowRefs) |-> h.strs[rowRefs[i]]]
  IN [heap |-> NewStrs(h, arrs), refs |-> NewStrRefs(h, arrs)]

replaceValues(h, data, replacements) ==
  LET headers == h.strs[data.headers]
      copy == CopyRows(h, h.lists[data.rows])
      transformedRows == copy.refs
      values == ApplyReplacements(headers,
                  [i \in 1..Len(transformedRows) |-> copy.heap.strs[transformedRows[i]]],
                  replacements)
      h1 == WriteStrs(copy.heap, transformedRows, values)
      h2 == NewList(h1, transformedRows)
      h3 == NewStrs(h2, <<headers>>)
  IN Returned(h3, [headers |-> Len(h2.strs) + 1, rows |-> NewListRef(h1)])

(* ------------------------------ mapHeaders ----------------------------- *)
(* mappings is the entry list [key, isList, names]: names is <<name>> for  *)
(* a string value and the list for an array value.                         *)

\* if (mapping): undefined and "" are falsy, every array is truthy
Truthy(key, mappings) ==
  \E k \in 1..Len(mappings) :
     mappings[k].key = key /\ (mappings[k].isList \/ mappings[k].names[1] # "")

MappingOf(key, mappings) ==
  mappings[CHOOSE k \in 1..Len(mappings) : mappings[k].key = key]

NewHeadersOf_dropUnmapped(originalHeader, mappings) ==
  IF Truthy(originalHeader, mappings)
  THEN MappingOf(originalHeader, mappings).names
  ELSE <<>>

NewHeadersOf(originalHeader, mappings) ==
  IF Truthy(originalHeader, mappings)
  THEN MappingOf(originalHeader, mappings).names
  ELSE <<originalHeader>>

MapHeaderNames(headers, mappings) ==
  Flatten([i \in 1..Len(headers) |-> NewHeadersOf(headers[i], mappings)])

MapRow_once(headers, mappings, oldRow) == oldRow

MapRow(headers, mappings, oldRow) ==
  Flatten([index \in 1..Len(oldRow) |->
     IF /\ index <= Len(headers)
        /\ Truthy(headers[index], mappings)
        /\ MappingOf(headers[index], mappings).isList
     THEN [k \in 1..Len(MappingOf(headers[index], mappings).names) |-> oldRow[index]]
     ELSE <<oldRow[index]>>])

mapHeaders(h, data, mappings) ==
  LET headers == h.strs[data.headers]
      rowRefs == h.lists[data.rows]
      newHeaders == MapHeaderNames(headers, mappings)
      newRows == [i \in 1..Len(rowRefs) |-> MapRow(headers, mappings, h.strs[rowRefs[i]])]
      h1 == NewStrs(h, <<newHeaders>> \o newRows)
      h2 == NewList(h1, [i \in 1..Len(rowRefs) |-> Len(h.strs) + 1 + i])
  IN Returned(h2, [headers |-> Len(h.strs) + 1, rows |-> NewListRef(h1)])

(* ---------------------------- addFixedColumns -------------------------- *)
(* fixedColumns is the entry list [name, isNum, s, n] in the iteration     *)
(* order of Object.keys / Object.values.                                   *)

Digit(d) ==
  CASE d = 0 -> "0" [] d = 1 -> "1" [] d = 2 -> "2" [] d = 3 -> "3" [] d = 4 -> "4"
    [] d = 5 -> "5" [] d = 6 -> "6" [] d = 7 -> "7" [] d = 8 -> "8" [] d = 9 -> "9"

RECURSIVE NumToStr(_)
NumToStr(n) ==
  IF n < 0 THEN "-" \o NumToStr(0 - n)
  ELSE IF n < 10 THEN Digit(n)
  ELSE NumToStr(n \div 10) \o Digit(n % 10)

\* String(value)
String(value) == IF value.isNum THEN NumToStr(value.n) ELSE value.s

FixedNames(fixedColumns) == [k \in 1..Len(fixedColumns) |-> fixedColumns[k].name]

FixedValues_reversed(fixedColumns) ==
  [k \in 1..Len(fixedColumns) |-> String(fixedColumns[Len(fixedColumns) + 1 - k])]

FixedValues(fixedColumns) ==
  [k \in 1..Len(fixedColumns) |-> String(fixedColumns[k])]

DuplicateColumns_first(headers, fixedColumns) ==
  LET all == SelectSeq(FixedNames(fixedColumns),
                       LAMBDA columnName : columnName \in Range(headers))
  IN SubSeq(all, 1, Min2(1, Len(all)))

DuplicateColumns(headers, fixedColumns) ==
  SelectSeq(FixedNames(fixedColumns), LAMBDA columnName : columnName \in Range(headers))

addFixedColumns(h, data, fixedColumns) ==
  LET headers == h.strs[data.headers]
      rowRefs == h.lists[data.rows]
      duplicateColumns == DuplicateColumns(headers, fixedColumns)
  IN IF duplicateColumns # <<>>
     THEN Thrown(h, handleTransformationError("fixedDuplicate", duplicateColumns))
     ELSE LET newHeaders == headers \o FixedNames(fixedColumns)
              newRows == [i \in 1..Len(rowRefs) |->
                            h.strs[rowRefs[i]] \o FixedValues(fixedColumns)]
              h1 == NewStrs(h, <<newHeaders>> \o newRows)
              h2 == NewList(h1, [i \in 1..Len(rowRefs) |-> Len(h.strs) + 1 + i])
          IN Returned(h2, [headers |-> Len(h.strs) + 1, rows |-> NewListRef(h1)])

(* ------------------------------ transform ------------------------------ *)
(* A configuration is [fields, headerMappings, fixedColumns, columnOrder,  *)
(* valueReplacements, deleteConditions]: fields is the set of the fields   *)
(* that are set; a field that is not set holds <<>>.                       *)

Cfg(fields, hm, fc, co, vr, dc) ==
  [fields |-> fields, headerMappings |-> hm, fixedColumns |-> fc,
   columnOrder |-> co, valueReplacements |-> vr, deleteConditions |-> dc]

\* The call of one engine operation with its argument taken from the configuration.
Invoke(name, h, data, config) ==
  CASE name = "deleteRows" -> deleteRows(h, data, config.deleteConditions)
    [] name = "mapHeaders" -> mapHeaders(h, data, config.headerMappings)
    [] name = "addFixedColumns" -> addFixedColumns(h, data, config.fixedColumns)
    [] name = "reorderColumns" -> reorderColumns(h, data, config.columnOrder)
    [] name = "replaceValues" -> replaceValues(h, data, config.valueReplacements)

\* The configuration field each step of transform is guarded by.
FieldOf(name) ==
  CASE name = "mapHeaders" -> "headerMappings"
    [] name = "addFixedColumns" -> "fixedColumns"
    [] name = "reorderColumns" -> "columnOrder"
    [] name = "replaceValues" -> "valueReplacements"
    [] name = "deleteRows" -> "deleteConditions"

StepOrder_reorderFirst ==
  <<"mapHeaders", "reorderColumns", "addFixedColumns", "replaceValues">>

\* The steps of transform in the order of its statements.
StepOrder ==
  <<"mapHeaders", "addFixedColumns", "reorderColumns", "replaceValues">>

StepIndex(name) == CHOOSE k \in 1..Len(StepOrder) : StepOrder[k] = name

\* The position after a step: the next step, or "done" after the last one.
NextPc(name) ==
  IF StepIndex(name) = Len(StepOrder) THEN "done" ELSE StepOrder[StepIndex(name) + 1]

(* --------------------------- inputs of the model ----------------------- *)

Headers(n) == SubSeq(HeaderUniverse, 1, n)

\* Rows of at most n cells.
RowsUpTo(n) == SeqsUpTo(CellValues, n)

\* Tables whose rows have at most as many cells as there are headers.
Tables ==
  UNION {{[headers |-> Headers(n), rows |-> rs] : rs \in SeqsUpTo(RowsUpTo(n), MaxRows)}
         : n \in 0..Len(HeaderUniverse)}

IsRectangular(t) == \A i \in 1..Len(t.rows) : Len(t.rows[i]) = Len(t.headers)

\* Tables as the parser delivers them: every row has one cell per header.
RectTables == {t \in Tables : IsRectangular(t)}

Cond(column, isList, values) == [column |-> column, isList |-> isList, values |-> values]

ConditionPool ==
  {Cond("a", FALSE, <<"x">>), Cond("a", TRUE, <<"">>),
   Cond("b", FALSE, <<"x">>), Cond("b", TRUE, <<"x", "">>),
   Cond("z", FALSE, <<"x">>), Cond("w", TRUE, <<"x">>)}

ConditionLists == SeqsUpTo(ConditionPool, 2)

OrderPool ==
  SeqsUpTo({"a", "b", "z"}, 2)
    \cup {<<"z", "a", "w">>, <<"b", "a", "b">>, <<"w", "z">>}

Rep(from, to) == [from |-> from, to |-> to]

ReplacementMaps ==
  {<<Rep("x", "y")>>, <<Rep("x", "y"), Rep("y", "z")>>, <<Rep("", "n"), Rep("n", "x")>>}

ColRep(column, map) == [column |-> column, map |-> map]

\* Entry lists with pairwise distinct column names.
ReplacementPool ==
  {<<>>}
    \cup {<<ColRep(c, m)>> : c \in {"a", "b", "z"}, m \in ReplacementMaps}
    \cup {<<ColRep(c[1], m1), ColRep(c[2], m2)>> :
            c \in {<<"a", "b">>, <<"z", "a">>, <<"b", "z">>},
            m1 \in ReplacementMaps, m2 \in ReplacementMaps}

One(key, name) == [key |-> key, isList |-> FALSE, names |-> <<name>>]

Many(key, names) == [key |-> key, isList |-> TRUE, names |-> names]

MappingEntries(key) == {One(key, "d"), One(key, "b"), Many(key, <<"d", "e">>)}

\* Entry lists with pairwise distinct keys.
MappingPool ==
  {<<>>}
    \cup {<<m>> : m \in MappingEntries("a") \cup MappingEntries("b") \cup MappingEntries("z")}
    \cup {<<m1, m2>> : m1 \in MappingEntries("a"),
                       m2 \in MappingEntries("b") \cup MappingEntries("z")}
    \cup {<<m1, m2>> : m1 \in MappingEntries("z"), m2 \in MappingEntries("b")}

FStr(name, s) == [name |-> name, isNum |-> FALSE, s |-> s, n |-> 0]

FNum(name, n) == [name |-> name, isNum |-> TRUE, s |-> "", n |-> n]

FixedEntries == {FStr("f", "v"), FNum("k", 12), FStr("a", "v"), FNum("b", 7)}

\* Entry lists with pairwise distinct names.
FixedPool ==
  {<<>>}
    \cup {<<e>> : e \in FixedEntries}
    \cup {p \in FixedEntries \X FixedEntries : p[1].name # p[2].name}
    \cup {<<FStr("b", ""), FStr("f", "v"), FNum("a", 0 - 3)>>}

\* Configurations of transform: each field absent, empty or set.
Option(name, values) == {[set |-> {}, v |-> <<>>]} \cup {[set |-> {name}, v |-> v] : v \in values}

TransformConfigs ==
  {Cfg(hm.set \cup fc.set \cup co.set \cup vr.set, hm.v, fc.v, co.v, vr.v, <<>>) :
     hm \in Option("headerMappings",
                   {<<>>, <<One("a", "d")>>, <<Many("b", <<"d", "e">>)>>, <<One("a", "b")>>}),
     fc \in Option("fixedColumns",
                   {<<>>, <<FStr("f", "v"), FNum("k", 12)>>, <<FNum("d", 7)>>}),
     co \in Option("columnOrder",
                   {<<>>, <<"f", "d">>, <<"b", "a">>, <<"k", "a", "z">>}),
     vr \in Option("valueReplacements",
                   {<<>>, <<ColRep("d", <<Rep("x", "y")>>), ColRep("a", <<Rep("", "n")>>)>>,
                    <<ColRep("f", <<Rep("v", "w")>>)>>})}

(* ------------------------------- state --------------------------------- *)

VARIABLES
  heap,     \* the arrays
  op,       \* the operation called: "none" before the call
  cfg,      \* its configuration argument
  data,     \* its table argument (a reference)
  orig,     \* the value of the table argument when the call was made
  pc,       \* "idle", the step transform is at, "done" (returned) or "thrown"
  cur,      \* transformedData of transform
  steps,    \* the steps transform has started, in order
  result,   \* the returned table (a reference)
  error,    \* the error thrown
  mutated   \* whether the caller has written to the returned table

vars == <<heap, op, cfg, data, orig, pc, cur, steps, result, error, mutated>>

Init ==
  /\ heap = EmptyHeap
  /\ op = "none"
  /\ cfg = Cfg({}, <<>>, <<>>, <<>>, <<>>, <<>>)
  /\ data = NoRef
  /\ orig = [headers |-> <<>>, rows |-> <<>>]
  /\ pc = "idle"
  /\ cur = NoRef
  /\ steps = <<>>
  /\ result = NoRef
  /\ error = NoErr
  /\ mutated = FALSE

\* A direct call of one engine operation on a freshly constructed table.
Call(name, t, config) ==
  /\ LET r == Invoke(name, Load(t), LoadedRef, config)
     IN /\ heap' = r.heap
        /\ result' = r.out
        /\ error' = r.err
        /\ pc' = IF r.ok THEN "done" ELSE "thrown"
  /\ op' = name
  /\ cfg' = config
  /\ data' = LoadedRef
  /\ orig' = t
  /\ UNCHANGED <<cur, steps, mutated>>

CallDeleteRows ==
  /\ pc = "idle"
  /\ \E t \in Tables, c \in ConditionLists :
        Call("deleteRows", t, Cfg({"deleteConditions"}, <<>>, <<>>, <<>>, <<>>, c))

CallMapHeaders ==
  /\ pc = "idle"
  /\ \E t \in Tables, m \in MappingPool :
        Call("mapHeaders", t, Cfg({"headerMappings"}, m, <<>>, <<>>, <<>>, <<>>))

CallAddFixedColumns ==
  /\ pc = "idle"
  /\ \E t \in Tables, f \in FixedPool :
        Call("addFixedColumns", t, Cfg({"fixedColumns"}, <<>>, f, <<>>, <<>>, <<>>))

CallReorderColumns ==
  /\ pc = "idle"
  /\ \E t \in Tables, o \in OrderPool :
        Call("reorderColumns", t, Cfg({"columnOrder"}, <<>>, <<>>, o, <<>>, <<>>))

CallReplaceValues ==
  /\ pc = "idle"
  /\ \E t \in Tables, r \in ReplacementPool :
        Call("replaceValues", t, Cfg({"valueReplacements"}, <<>>, <<>>, <<>>, r, <<>>))

\* transform is entered: let transformedData = { ...data }
TransformBegin ==
  /\ pc = "idle"
  /\ \E t \in RectTables, c \in TransformConfigs :
        /\ heap' = Load(t)
        /\ orig' = t
        /\ cfg' = c
  /\ op' = "transform"
  /\ data' = LoadedRef
  /\ cur' = LoadedRef
  /\ pc' = StepOrder[1]
  /\ UNCHANGED <<steps, result, error, mutated>>

\* One statement "if (config.field) transformedData = this.step(...)"; the
\* return follows the last one, and an error thrown by the step leaves transform.
TransformStep(name) ==
  /\ op = "transform"
  /\ pc = name
  /\ IF FieldOf(name) \in cfg.fields
     THEN LET r == Invoke(name, heap, cur, cfg)
          IN /\ heap' = r.heap
             /\ steps' = Append(steps, name)
             /\ error' = r.err
             /\ cur' = IF r.ok THEN r.out ELSE cur
             /\ pc' = IF r.ok THEN NextPc(name) ELSE "thrown"
             /\ result' = IF r.ok /\ NextPc(name) = "done" THEN r.out ELSE result
     ELSE /\ pc' = NextPc(name)
          /\ result' = IF NextPc(name) = "done" THEN cur ELSE result
          /\ UNCHANGED <<heap, steps, error, cur>>
  /\ UNCHANGED <<op, cfg, data, orig, mutated>>

TransformMapHeaders == TransformStep("mapHeaders")

TransformAddFixedColumns == TransformStep("addFixedColumns")

TransformReorderColumns == TransformStep("reorderColumns")

TransformReplaceValues == TransformStep("replaceValues")

\* The caller assigns to a cell of the table it got back.
MutateResult ==
  /\ pc = "done"
  /\ ~mutated
  /\ \E i \in 1..Len(heap.lists[result.rows]) :
        LET ref == heap.lists[result.rows][i]
        IN /\ Len(heap.strs[ref]) > 0
           /\ heap' = [heap EXCEPT !.strs[ref][1] = "!"]
  /\ mutated' = TRUE
  /\ UNCHANGED <<op, cfg, data, orig, pc, cur, steps, result, error>>

Next ==
  \/ CallDeleteRows
  \/ CallMapHeaders
  \/ CallAddFixedColumns
  \/ CallReorderColumns
  \/ CallReplaceValues
  \/ TransformBegin
  \/ TransformMapHeaders
  \/ TransformAddFixedColumns
  \/ TransformReorderColumns
  \/ TransformReplaceValues
  \/ MutateResult

Spec == Init /\ [][Next]_vars

(* ============================ configuration ============================ *)
(* A configuration document is a JSON value, as JSON.parse returns it: the *)
(* validator receives it before anything is known about its types.        *)
(* A value is [t, s, n, e]: t its kind, s the text of a string, n the      *)
(* number (1 or 0 for true and false), e the items of an array or the      *)
(* properties [k, v] of an object in the order Object.entries lists them.  *)

JVal(t, s, n, e) == [t |-> t, s |-> s, n |-> n, e |-> e]

JUndefined == JVal("undefined", "", 0, <<>>)

JNull == JVal("null", "", 0, <<>>)

JTrue == JVal("boolean", "", 1, <<>>)

JNum(n) == JVal("number", "", n, <<>>)

JStr(s) == JVal("string", s, 0, <<>>)

JArr(items) == JVal("array", "", 0, items)

JProp(k, v) == [k |-> k, v |-> v]

JObj(props) == JVal("object", "", 0, props)

\* typeof value
TypeOf(v) == IF v.t \in {"null", "array", "object"} THEN "object" ELSE v.t

\* The value as a condition: if (value), !value, value && ...
ToBoolean(v) ==
  CASE v.t \in {"undefined", "null"} -> FALSE
    [] v.t \in {"number", "boolean"} -> v.n # 0
    [] v.t = "string" -> v.s # ""
    [] OTHER -> TRUE

\* The characters of a string; strings that stand where an array or an
\* object is expected have at most one character.
Chars(s) == IF Len(s) = 0 THEN <<>> ELSE <<JStr(s)>>

\* Object.entries(value): own enumerable properties; the indices of an array
\* or a string are its property names.
ObjectEntries(v) ==
  CASE v.t = "object" -> v.e
    [] v.t = "array" -> [i \in 1..Len(v.e) |-> JProp(NumToStr(i - 1), v.e[i])]
    [] v.t = "string" -> [i \in 1..Len(Chars(v.s)) |-> JProp(NumToStr(i - 1), Chars(v.s)[i])]
    [] OTHER -> <<>>

\* Object.keys(value)
ObjectKeys(v) == [i \in 1..Len(ObjectEntries(v)) |-> ObjectEntries(v)[i].k]

\* Object.values(value)
ObjectValues(v) == [i \in 1..Len(ObjectEntries(v)) |-> ObjectEntries(v)[i].v]

\* value[key] for a value that is neither undefined nor null; the names are
\* not names of members of Object.prototype.
Get(v, key) ==
  LET entries == ObjectEntries(v)
      S == {i \in 1..Len(entries) : entries[i].k = key}
  IN IF S = {} THEN JUndefined ELSE entries[Max(S)].v

\* array.flat()
Flat(items) ==
  Flatten([i \in 1..Len(items) |-> IF items[i].t = "array" THEN items[i].e ELSE <<items[i]>>])

\* for (const x of value): an array gives its items and a string its
\* characters; nothing else a JSON document holds is iterable.
IsIterable(v) == v.t \in {"array", "string"}

Iterate(v) == IF v.t = "array" THEN v.e ELSE Chars(v.s)

\* value.includes(name): an array has the name among its items, a string has
\* it as a substring; no other value has the method.
HasIncludes(v) == v.t \in {"array", "string"}

Includes(v, name) ==
  IF v.t = "array" THEN JStr(name) \in Range(v.e)
  ELSE name = "" \/ JStr(name) \in Range(Chars(v.s))

\* text.trim(): of the texts of the model only " " has whitespace to remove.
Trim(s) == IF s = " " THEN "" ELSE s

\* text.toLowerCase(): of the texts of the model only "UTF8" has upper case.
ToLowerCase(s) == IF s = "UTF8" THEN "utf8" ELSE s

HasDuplicates_never(items) == FALSE

\* new Set(items).size !== items.length: two items are the same member when
\* they are equal primitive values; an array or an object is only itself.
HasDuplicates(items) ==
  \E i, j \in 1..Len(items) :
     i < j /\ items[i] = items[j] /\ items[i].t \notin {"array", "object"}

\* A message of the validator: the template of its text and the names it quotes.
Msg(tmpl, args) == [tmpl |-> tmpl, args |-> args]

ValidationResult(errors) == [isValid |-> errors = <<>>, errors |-> errors]

\* The entries a loop visits when stops are the positions at which its body
\* ends in a break.
UpToBreak(entries, stops) ==
  IF stops = {} THEN entries
  ELSE SubSeq(entries, 1, CHOOSE i \in stops : \A j \in stops : i <= j)

\* The positions of the entries with a blank key.
BlankKeys(entries) == {i \in 1..Len(entries) : Trim(entries[i].k) = ""}

(* ------------------------ validateHeaderMappings ----------------------- *)

IsBlankKey(p) == Trim(p.k) = ""

HeaderMappingErrors_none(p) == <<>>

\* The body of the per-entry loop for one entry.
HeaderMappingErrors(p) ==
  IF IsBlankKey(p) THEN <<Msg("headerMappings keys must be non-empty strings", <<>>)>>
  ELSE IF p.v.t = "string"
  THEN IF Trim(p.v.s) = ""
       THEN <<Msg("headerMappings value cannot be an empty string", <<p.k>>)>>
       ELSE <<>>
  ELSE IF p.v.t = "array"
  THEN (IF p.v.e = <<>>
        THEN <<Msg("headerMappings array value cannot be empty", <<p.k>>)>>
        ELSE <<>>)
       \o (IF \E i \in 1..Len(p.v.e) : p.v.e[i].t # "string" \/ Trim(p.v.e[i].s) = ""
           THEN <<Msg("headerMappings array must only contain non-empty strings", <<p.k>>)>>
           ELSE <<>>)
  ELSE <<Msg("headerMappings value must be a string or an array of strings", <<p.k>>)>>

\* The earlier entries the loop has set in reverseMap under the name when it
\* comes to entry i: all of them, or the string-valued ones only.
SetBefore(entries, i, name, stringsOnly) ==
  {j \in 1..(i - 1) : entries[j].k = name /\ (stringsOnly => entries[j].v.t = "string")}

\* reverseMap.get(name)
ReverseMapGet(entries, i, name, stringsOnly) ==
  LET S == SetBefore(entries, i, name, stringsOnly)
  IN IF S = {} THEN JUndefined ELSE entries[Max(S)].v

\* reverseMap.has(name)
ReverseMapHas(entries, i, name, stringsOnly) == SetBefore(entries, i, name, stringsOnly) # {}

IsCircularMapping_hasOnly(entries, i) ==
  /\ entries[i].v.t = "string"
  /\ ReverseMapHas(entries, i, entries[i].v.s, TRUE)

\* reverseMap.has(value) && reverseMap.get(value) === key
IsCircularMapping(entries, i) ==
  /\ entries[i].v.t = "string"
  /\ ReverseMapHas(entries, i, entries[i].v.s, TRUE)
  /\ ReverseMapGet(entries, i, entries[i].v.s, TRUE) = JStr(entries[i].k)

CircularMappingErrors(entries) ==
  Flatten([i \in 1..Len(entries) |->
     IF IsCircularMapping(entries, i)
     THEN <<Msg("Circular mapping detected", <<entries[i].k, entries[i].v.s>>)>>
     ELSE <<>>])

validateHeaderMappings(headerMappings) ==
  IF headerMappings.t = "undefined" THEN ValidationResult(<<>>)
  ELSE IF TypeOf(headerMappings) # "object" \/ headerMappings.t = "null"
  THEN ValidationResult(<<Msg("headerMappings must be an object", <<>>)>>)
  ELSE LET entries == ObjectEntries(headerMappings)
           visited == UpToBreak(entries, BlankKeys(entries))
       IN ValidationResult(
            Flatten([i \in 1..Len(visited) |-> HeaderMappingErrors(visited[i])])
              \o CircularMappingErrors(entries))

(* -------------------------- validateColumnOrder ------------------------ *)

IsBadColumn(column) == column.t # "string" \/ Trim(column.s) = ""

ColumnOrderErrors(column) ==
  IF column.t # "string" THEN <<Msg("columnOrder must contain only strings", <<>>)>>
  ELSE IF Trim(column.s) = "" THEN <<Msg("columnOrder cannot contain empty strings", <<>>)>>
  ELSE <<>>

validateColumnOrder(columnOrder) ==
  IF columnOrder.t = "undefined" THEN ValidationResult(<<>>)
  ELSE IF columnOrder.t # "array"
  THEN ValidationResult(<<Msg("columnOrder must be an array", <<>>)>>)
  ELSE LET visited == UpToBreak(columnOrder.e,
                              {i \in 1..Len(columnOrder.e) : IsBadColumn(columnOrder.e[i])})
       IN ValidationResult(
            Flatten([i \in 1..Len(visited) |-> ColumnOrderErrors(visited[i])])
              \o (IF HasDuplicates(columnOrder.e)
                  THEN <<Msg("columnOrder cannot contain duplicate column names", <<>>)>>
                  ELSE <<>>))

(* ----------------------- validateValueReplacements --------------------- *)

\* reverseMap.has(newValue) && reverseMap.get(newValue) === oldValue, the map
\* being the one of the column the entries belong to.
IsCircularReplacement(entries, i) ==
  /\ entries[i].v.t = "string"
  /\ ReverseMapHas(entries, i, entries[i].v.s, FALSE)
  /\ ReverseMapGet(entries, i, entries[i].v.s, FALSE) = JStr(entries[i].k)

\* The body of the loop over the columns for one column.
ValueReplacementErrors(p) ==
  IF IsBlankKey(p)
  THEN <<Msg("valueReplacements column names must be non-empty strings", <<>>)>>
  ELSE IF TypeOf(p.v) # "object" \/ p.v.t = "null"
  THEN <<Msg("valueReplacements for column must be an object", <<p.k>>)>>
  ELSE LET entries == ObjectEntries(p.v)
       IN (IF \E i \in 1..Len(entries) : entries[i].v.t # "string"
           THEN <<Msg("valueReplacements for column must have string keys and values", <<p.k>>)>>
           ELSE <<>>)
          \o Flatten([i \in 1..Len(entries) |->
               IF IsCircularReplacement(entries, i)
               THEN <<Msg("Circular replacement detected in column",
                          <<p.k, entries[i].k, entries[i].v.s>>)>>
               ELSE <<>>])

validateValueReplacements(valueReplacements) ==
  IF valueReplacements.t = "undefined" THEN ValidationResult(<<>>)
  ELSE IF TypeOf(valueReplacements) # "object" \/ valueReplacements.t = "null"
  THEN ValidationResult(<<Msg("valueReplacements must be an object", <<>>)>>)
  ELSE LET all == ObjectEntries(valueReplacements)
           visited == UpToBreak(all, BlankKeys(all))
       IN ValidationResult(
            Flatten([i \in 1..Len(visited) |-> ValueReplacementErrors(visited[i])]))

(* ----------------------- validateDeleteConditions ---------------------- *)

\* for (const prop in condition): the names other than column and value
ExtraProperties_none(condition) == <<>>

\* for (const prop in condition) if (!allowedProperties.has(prop))
ExtraProperties(condition) ==
  SelectSeq(ObjectKeys(condition), LAMBDA prop : prop \notin {"column", "value"})

\* The body of the loop for the condition at index i (from 0).
DeleteConditionErrors(condition, i) ==
  IF ~ToBoolean(condition) \/ TypeOf(condition) # "object"
  THEN <<Msg("deleteConditions[i] must be an object", <<NumToStr(i)>>)>>
  ELSE LET column == Get(condition, "column")
           value == Get(condition, "value")
       IN (IF column.t # "string"
           THEN <<Msg("deleteConditions[i].column must be a non-empty string", <<NumToStr(i)>>)>>
           ELSE IF Trim(column.s) = ""
           THEN <<Msg("deleteConditions[i].column cannot be empty or whitespace-only",
                      <<NumToStr(i)>>)>>
           ELSE <<>>)
          \o (IF value.t \in {"undefined", "null"}
              THEN <<Msg("deleteConditions[i].value is required", <<NumToStr(i)>>)>>
              ELSE IF value.t = "string" THEN <<>>
              ELSE IF value.t = "array"
              THEN IF value.e = <<>>
                   THEN <<Msg("deleteConditions[i].value array cannot be empty", <<NumToStr(i)>>)>>
                   ELSE LET S == {j \in 1..Len(value.e) : value.e[j].t # "string"}
                        IN IF S = {} THEN <<>>
                           ELSE <<Msg("deleteConditions[i].value[j] must be a string",
                                      <<NumToStr(i), NumToStr((CHOOSE j \in S : \A k \in S : j <= k) - 1)>>)>>
              ELSE <<Msg("deleteConditions[i].value must be a string or an array of strings",
                         <<NumToStr(i)>>)>>)
          \o [k \in 1..Len(ExtraProperties(condition)) |->
                Msg("deleteConditions[i] contains unexpected property",
                    <<NumToStr(i), ExtraProperties(condition)[k]>>)]

validateDeleteConditions(deleteConditions) ==
  IF deleteConditions.t = "undefined" THEN ValidationResult(<<>>)
  ELSE IF deleteConditions.t # "array"
  THEN ValidationResult(<<Msg("deleteConditions must be an array", <<>>)>>)
  ELSE ValidationResult(
         Flatten([i \in 1..Len(deleteConditions.e) |->
                    DeleteConditionErrors(deleteConditions.e[i], i - 1)]))

(* ------------------ validateDeleteConditionsWithHeaders ---------------- *)

IsUnknownColumn_never(column, headers) == FALSE

\* condition.column && !headerSet.has(condition.column)
IsUnknownColumn(column, headers) ==
  ToBoolean(column) /\ \A k \in 1..Len(headers) : JStr(headers[k]) # column

\* deleteConditions is undefined or a list of objects, headers a list of
\* strings.
validateDeleteConditionsWithHeaders(deleteConditions, headers) ==
  IF ~ToBoolean(deleteConditions) \/ deleteConditions.e = <<>>
  THEN ValidationResult(<<>>)
  ELSE ValidationResult(
         Flatten([i \in 1..Len(deleteConditions.e) |->
                    IF IsUnknownColumn(Get(deleteConditions.e[i], "column"), headers)
                    THEN <<Msg("deleteConditions[i] references column which does not exist in input CSV",
                               <<NumToStr(i - 1), Get(deleteConditions.e[i], "column").s>>)>>
                    ELSE <<>>]))

(* -------------------------- validateFixedColumns ----------------------- *)

FixedColumnErrors(p) ==
  IF IsBlankKey(p) THEN <<Msg("fixedColumns column names must be non-empty strings", <<>>)>>
  ELSE IF p.v.t \notin {"string", "number"}
  THEN <<Msg("fixedColumns value for column must be a string or a number", <<p.k>>)>>
  ELSE <<>>

validateFixedColumns(fixedColumns) ==
  IF fixedColumns.t = "undefined" THEN ValidationResult(<<>>)
  ELSE IF TypeOf(fixedColumns) # "object" \/ fixedColumns.t = "null"
  THEN ValidationResult(<<Msg("fixedColumns must be an object", <<>>)>>)
  ELSE LET visited == UpToBreak(ObjectEntries(fixedColumns), BlankKeys(ObjectEntries(fixedColumns)))
       IN ValidationResult(
            Flatten([i \in 1..Len(visited) |-> FixedColumnErrors(visited[i])])
              \o (IF ~IsDistinct(ObjectKeys(fixedColumns))
                  THEN <<Msg("fixedColumns cannot contain duplicate column names", <<>>)>>
                  ELSE <<>>))

(* ------------------------- validateOutputEncoding ---------------------- *)

supportedEncodings == {"utf8", "shift_jis", "euc-jp"}

validateOutputEncoding(outputEncoding) ==
  IF outputEncoding.t = "undefined" THEN ValidationResult(<<>>)
  ELSE IF outputEncoding.t # "string"
  THEN ValidationResult(<<Msg("outputEncoding must be a string", <<>>)>>)
  ELSE IF Trim(outputEncoding.s) = ""
  THEN ValidationResult(<<Msg("outputEncoding cannot be an empty string", <<>>)>>)
  ELSE IF ToLowerCase(outputEncoding.s) \notin supportedEncodings
  THEN ValidationResult(<<Msg("outputEncoding is not supported", <<outputEncoding.s>>)>>)
  ELSE ValidationResult(<<>>)

(* ------------------------- validateConfiguration ----------------------- *)
(* The result is [threw, isValid, errors, warnings]; threw tells that the  *)
(* call ended with a TypeError instead of returning.                       *)

MappedHeaders_stringsOnly(headerMappings) ==
  SelectSeq(ObjectValues(headerMappings), LAMBDA v : v.t = "string")

\* new Set(Object.values(config.headerMappings).flat())
MappedHeaders(headerMappings) == Flat(ObjectValues(headerMappings))

\* new Set(Object.keys(config.headerMappings))
OriginalHeaders(headerMappings) == Range(ObjectKeys(headerMappings))

\* The errors of the six field validators, in the order they are pushed.
FieldErrors(config) ==
  validateHeaderMappings(Get(config, "headerMappings")).errors
    \o validateColumnOrder(Get(config, "columnOrder")).errors
    \o validateValueReplacements(Get(config, "valueReplacements")).errors
    \o validateFixedColumns(Get(config, "fixedColumns")).errors
    \o validateDeleteConditions(Get(config, "deleteConditions")).errors
    \o validateOutputEncoding(Get(config, "outputEncoding")).errors

\* for (const column of config.columnOrder) on a value that is not iterable
ThrowsNotIterable(config) ==
  /\ ToBoolean(Get(config, "headerMappings"))
  /\ ToBoolean(Get(config, "columnOrder"))
  /\ ~IsIterable(Get(config, "columnOrder"))

\* config.columnOrder.includes(fixedColumn) on a value without the method
ThrowsNoIncludes(config) ==
  /\ ToBoolean(Get(config, "fixedColumns"))
  /\ ToBoolean(Get(config, "columnOrder"))
  /\ ObjectKeys(Get(config, "fixedColumns")) # <<>>
  /\ ~HasIncludes(Get(config, "columnOrder"))

OriginalHeaderWarnings(config) ==
  LET headerMappings == Get(config, "headerMappings")
      columnOrder == Get(config, "columnOrder")
  IN IF ToBoolean(headerMappings) /\ ToBoolean(columnOrder)
     THEN [k \in 1..Len(SelectSeq(Iterate(columnOrder),
                    LAMBDA column : column.t = "string"
                                    /\ column.s \in OriginalHeaders(headerMappings))) |->
             Msg("columnOrder references original header",
                 <<SelectSeq(Iterate(columnOrder),
                     LAMBDA column : column.t = "string"
                                     /\ column.s \in OriginalHeaders(headerMappings))[k].s>>)]
     ELSE <<>>

ConflictErrors_none(config) == <<>>

\* The conflicts of the fixed-column names with the header mappings.
ConflictErrors(config) ==
  LET fixedColumns == Get(config, "fixedColumns")
      headerMappings == Get(config, "headerMappings")
      fixedColumnNames == ObjectKeys(fixedColumns)
  IN IF ToBoolean(fixedColumns) /\ ToBoolean(headerMappings)
     THEN Flatten([i \in 1..Len(fixedColumnNames) |->
            (IF fixedColumnNames[i] \in OriginalHeaders(headerMappings)
             THEN <<Msg("Fixed column conflicts with original header in headerMappings",
                        <<fixedColumnNames[i]>>)>>
             ELSE <<>>)
            \o (IF JStr(fixedColumnNames[i]) \in Range(MappedHeaders(headerMappings))
                THEN <<Msg("Fixed column conflicts with mapped header in headerMappings",
                           <<fixedColumnNames[i]>>)>>
                ELSE <<>>)])
     ELSE <<>>

NotInOrderWarnings(config) ==
  LET fixedColumns == Get(config, "fixedColumns")
      columnOrder == Get(config, "columnOrder")
      absent == SelectSeq(ObjectKeys(fixedColumns),
                          LAMBDA fixedColumn : ~Includes(columnOrder, fixedColumn))
  IN IF ToBoolean(fixedColumns) /\ ToBoolean(columnOrder)
     THEN [k \in 1..Len(absent) |->
             Msg("Fixed column is not included in columnOrder and will be placed at the end",
                 <<absent[k]>>)]
     ELSE <<>>

ReplacedFixedWarnings(config) ==
  LET fixedColumns == Get(config, "fixedColumns")
      valueReplacements == Get(config, "valueReplacements")
      replaced == SelectSeq(ObjectKeys(fixedColumns),
                            LAMBDA fixedColumn : ToBoolean(Get(valueReplacements, fixedColumn)))
  IN IF ToBoolean(fixedColumns) /\ ToBoolean(valueReplacements)
     THEN [k \in 1..Len(replaced) |->
             Msg("Fixed column has value replacements defined", <<replaced[k]>>)]
     ELSE <<>>

EmptyConfigurationWarning ==
  Msg("Configuration is empty - no transformations will be applied", <<>>)

EmptyWarnings_noDeleteConditions(config) ==
  IF /\ ~ToBoolean(Get(config, "headerMappings"))
     /\ ~ToBoolean(Get(config, "columnOrder"))
     /\ ~ToBoolean(Get(config, "valueReplacements"))
     /\ ~ToBoolean(Get(config, "fixedColumns"))
     /\ ~ToBoolean(Get(config, "outputEncoding"))
  THEN <<EmptyConfigurationWarning>>
  ELSE <<>>

EmptyWarnings(config) ==
  IF /\ ~ToBoolean(Get(config, "headerMappings"))
     /\ ~ToBoolean(Get(config, "columnOrder"))
     /\ ~ToBoolean(Get(config, "valueReplacements"))
     /\ ~ToBoolean(Get(config, "fixedColumns"))
     /\ ~ToBoolean(Get(config, "deleteConditions"))
     /\ ~ToBoolean(Get(config, "outputEncoding"))
  THEN <<EmptyConfigurationWarning>>
  ELSE <<>>

Validation(threw, errors, warnings) ==
  [threw |-> threw, isValid |-> ~threw /\ errors = <<>>,
   errors |-> errors, warnings |-> warnings]

validateConfiguration(config) ==
  IF ~ToBoolean(config) \/ TypeOf(config) # "object"
  THEN Validation(FALSE, <<Msg("Configuration must be an object", <<>>)>>, <<>>)
  ELSE IF ThrowsNotIterable(config) \/ ThrowsNoIncludes(config)
  THEN Validation(TRUE, <<>>, <<>>)
  ELSE Validation(FALSE,
                  FieldErrors(config) \o ConflictErrors(config),
                  OriginalHeaderWarnings(config) \o NotInOrderWarnings(config)
                    \o ReplacedFixedWarnings(config) \o EmptyWarnings(config))

(* ----------------------- JSONConfigurationLoader ----------------------- *)
(* A configuration file is [kind, value]: "missing" when it cannot be      *)
(* read, "malformed" when JSON.parse rejects its text, and "json" with the *)
(* parsed value otherwise.                                                 *)

File(kind, value) == [kind |-> kind, value |-> value]

\* An exception that is not a CSVConverterError carries no error code.
RawError(name) == [code |-> "", tmpl |-> name, names |-> <<>>]

handleConfigError(cause) ==
  [code |-> CASE cause = "SyntaxError" -> "INVALID_CONFIGURATION"
              [] cause = "ENOENT" -> "FILE_NOT_FOUND"
              [] cause = "EACCES" -> "FILE_ACCESS_DENIED"
              [] OTHER -> "INVALID_CONFIGURATION",
   tmpl |-> cause,
   names |-> <<>>]

handleValidationError(tmpl) == [code |-> "VALIDATION_ERROR", tmpl |-> tmpl, names |-> <<>>]

Loaded(config) == [ok |-> TRUE, config |-> config, err |-> NoErr]

LoadFailed(e) == [ok |-> FALSE, config |-> JUndefined, err |-> e]

Rejects_onWarnings(validationResult) ==
  ~validationResult.isValid \/ validationResult.warnings # <<>>

\* if (!validationResult.isValid)
Rejects(validationResult) == ~validationResult.isValid

load(file) ==
  IF file.kind = "missing" THEN LoadFailed(handleConfigError("ENOENT"))
  ELSE IF file.kind = "malformed" THEN LoadFailed(handleConfigError("SyntaxError"))
  ELSE LET validationResult == validateConfiguration(file.value)
       IN IF validationResult.threw THEN LoadFailed(handleConfigError("TypeError"))
          ELSE IF Rejects(validationResult)
          THEN LoadFailed(handleValidationError("Invalid configuration"))
          ELSE Loaded(file.value)

(* ----------------------- inputs of the validator ----------------------- *)

\* The largest number of entries of a mapping, a list or an object given to
\* one of the field validators.
MaxEntries == 3

\* Entry lists over the keys and values with pairwise distinct keys, as
\* JSON.parse delivers the properties of an object.
EntryLists(keys, values) ==
  {s \in SeqsUpTo({JProp(k, v) : k \in keys, v \in values}, MaxEntries) :
     IsDistinct([i \in 1..Len(s) |-> s[i].k])}

\* Values of the wrong type for a field that holds an object or an array.
WrongTypes == {JNull, JNum(5), JNum(0), JStr("a"), JTrue}

HeaderMappingDocs ==
  {JObj(e) : e \in EntryLists({"a", "b", "c", " "},
                              {JStr("a"), JStr("b"), JStr("c"), JStr(""),
                               JArr(<<JStr("a")>>), JArr(<<>>), JNum(1)})}
    \cup {JObj(<<JProp("a", JArr(<<JStr("b"), JStr(" ")>>)), JProp("b", JArr(<<JStr("a")>>))>>),
          JArr(<<JStr("d")>>), JUndefined}
    \cup WrongTypes

ColumnOrderDocs ==
  {JArr(s) : s \in SeqsUpTo({JStr("a"), JStr("b"), JStr(" "), JNum(1)}, MaxEntries)}
    \cup {JObj(<<>>), JUndefined} \cup WrongTypes

ReplacementMapDocs ==
  {JObj(e) : e \in EntryLists({"x", "y", "z"}, {JStr("x"), JStr("y"), JStr("z"), JNum(1)})}

ValueReplacementDocs ==
  {JObj(<<JProp(c, m)>>) : c \in {"a", " "}, m \in ReplacementMapDocs \cup WrongTypes}
    \cup {JObj(<<JProp(c[1], m1), JProp(c[2], m2)>>) :
            c \in {<<"a", "b">>, <<" ", "b">>},
            m1 \in {JObj(<<JProp("x", JStr("y"))>>), JObj(<<JProp("x", JNum(1))>>), JNull},
            m2 \in {JObj(<<JProp("y", JStr("x"))>>),
                    JObj(<<JProp("y", JStr("x")), JProp("x", JStr("y"))>>),
                    JStr("a")}}
    \cup {JObj(<<>>), JArr(<<JObj(<<JProp("x", JStr("y"))>>)>>), JUndefined}
    \cup WrongTypes

FixedColumnDocs ==
  {JObj(e) : e \in EntryLists({"f", "a", " "}, {JStr("v"), JNum(7), JTrue, JNull})}
    \cup {JArr(<<JStr("v")>>), JUndefined} \cup WrongTypes

ConditionDocs ==
  {JObj(<<JProp("column", JStr("a")), JProp("value", JStr(""))>>),
   JObj(<<JProp("column", JStr("a")), JProp("value", JArr(<<JStr("x"), JStr("y")>>))>>),
   JObj(<<JProp("column", JNum(1)), JProp("value", JArr(<<>>))>>),
   JObj(<<JProp("column", JStr(" "))>>),
   JObj(<<JProp("value", JArr(<<JStr("x"), JNum(1), JNull>>)), JProp("extra", JNum(1)),
          JProp("other", JNull)>>),
   JObj(<<JProp("column", JStr("a")), JProp("value", JNum(5))>>),
   JObj(<<JProp("column", JStr("b")), JProp("value", JArr(<<JStr("")>>))>>),
   JObj(<<JProp("column", JStr("a")), JProp("value", JStr("x")), JProp("extra", JNum(1))>>),
   JArr(<<JStr("a")>>),
   JNull,
   JStr("a")}

DeleteConditionDocs ==
  {JArr(s) : s \in SeqsUpTo(ConditionDocs, MaxEntries)} \cup {JObj(<<>>), JUndefined} \cup WrongTypes

\* A configuration document with the given values of its six fields; a field
\* whose value is undefined is absent.
ConfigDoc(hm, co, vr, fc, dc, oe) ==
  JObj(SelectSeq(<<JProp("headerMappings", hm), JProp("columnOrder", co),
                   JProp("valueReplacements", vr), JProp("fixedColumns", fc),
                   JProp("deleteConditions", dc), JProp("outputEncoding", oe)>>,
                 LAMBDA p : p.v.t # "undefined"))

ConfigDocs ==
  {ConfigDoc(hm, co, vr, fc, dc, oe) :
     hm \in {JUndefined, JObj(<<>>), JObj(<<JProp("a", JStr("d"))>>),
             JObj(<<JProp("a", JArr(<<JStr("d"), JStr("e")>>))>>),
             JObj(<<JProp("a", JStr("b")), JProp("b", JStr("a"))>>),
             JObj(<<JProp(" ", JStr("d")), JProp("b", JStr(""))>>),
             JNum(5), JStr("a")},
     co \in {JUndefined, JArr(<<>>), JArr(<<JStr("f"), JStr("d")>>),
             JArr(<<JStr("a"), JStr("b")>>), JArr(<<JStr("a"), JStr("a")>>),
             JArr(<<JNum(1), JStr(" ")>>), JNum(5), JNum(0), JObj(<<>>), JStr("a")},
     vr \in {JUndefined, JObj(<<JProp("f", JObj(<<JProp("v", JStr("w"))>>))>>),
             JObj(<<JProp("a", JObj(<<JProp("x", JStr("y")), JProp("y", JStr("x"))>>))>>),
             JNum(5)},
     fc \in {JUndefined, JObj(<<>>), JObj(<<JProp("f", JStr("v"))>>),
             JObj(<<JProp("d", JNum(7)), JProp("a", JStr("v"))>>),
             JObj(<<JProp("e", JStr("v")), JProp("f", JStr("w"))>>),
             JObj(<<JProp("f", JTrue)>>), JNum(1), JStr("a")},
     dc \in {JUndefined, JArr(<<>>),
             JArr(<<JObj(<<JProp("column", JStr("a")), JProp("value", JStr("x"))>>)>>),
             JArr(<<JNull>>)},
     oe \in {JUndefined, JStr("utf8"), JStr("latin1"), JStr("")}}
    \cup {JArr(<<>>)} \cup WrongTypes

ConfigFiles ==
  {File("missing", JUndefined), File("malformed", JUndefined)}
    \cup {File("json", config) : config \in ConfigDocs}

(* ---------------------- calls of the validator ------------------------- *)
(* The call of a validator or of the loader: cfg is the value it is given, *)
(* result what it returns, error what it throws.                           *)

Validate(name, doc, r) ==
  /\ op' = name
  /\ cfg' = doc
  /\ result' = r
  /\ pc' = "done"
  /\ UNCHANGED <<heap, data, orig, cur, steps, error, mutated>>

ValidateHeaderMappings ==
  /\ pc = "idle"
  /\ \E doc \in HeaderMappingDocs :
        Validate("validateHeaderMappings", doc, validateHeaderMappings(doc))

ValidateColumnOrder ==
  /\ pc = "idle"
  /\ \E doc \in ColumnOrderDocs :
        Validate("validateColumnOrder", doc, validateColumnOrder(doc))

ValidateValueReplacements ==
  /\ pc = "idle"
  /\ \E doc \in ValueReplacementDocs :
        Validate("validateValueReplacements", doc, validateValueReplacements(doc))

ValidateFixedColumns ==
  /\ pc = "idle"
  /\ \E doc \in FixedColumnDocs :
        Validate("validateFixedColumns", doc, validateFixedColumns(doc))

ValidateDeleteConditions ==
  /\ pc = "idle"
  /\ \E doc \in DeleteConditionDocs :
        Validate("validateDeleteConditions", doc, validateDeleteConditions(doc))

\* Conditions that validateDeleteConditions accepts, on columns that are or
\* are not among the headers.
CheckedConditionDocs ==
  {JObj(<<JProp("column", JStr("a")), JProp("value", JStr("x"))>>),
   JObj(<<JProp("column", JStr("b")), JProp("value", JArr(<<JStr("x"), JStr("")>>))>>),
   JObj(<<JProp("column", JStr("z")), JProp("value", JStr(""))>>),
   JObj(<<JProp("column", JStr("w")), JProp("value", JStr("x"))>>)}

\* Header lists of an input table, one with a repeated name among them.
CheckedHeaders ==
  {<<>>, <<"a">>, <<"z">>, <<"a", "b">>, <<"b", "a">>, <<"a", "a">>, <<"w", "a", "z">>}

\* The cross-check of the conditions against the headers of a table: orig
\* is a table with the headers it is given.
ValidateDeleteConditionsWithHeaders ==
  /\ pc = "idle"
  /\ \E conditions \in SeqsUpTo(CheckedConditionDocs, MaxEntries), headers \in CheckedHeaders,
        absent \in BOOLEAN :
        LET doc == IF absent /\ conditions = <<>> THEN JUndefined ELSE JArr(conditions)
        IN /\ op' = "validateDeleteConditionsWithHeaders"
           /\ cfg' = doc
           /\ orig' = [headers |-> headers, rows |-> <<>>]
           /\ result' = validateDeleteConditionsWithHeaders(doc, headers)
  /\ pc' = "done"
  /\ UNCHANGED <<heap, data, cur, steps, error, mutated>>

ValidateConfiguration ==
  /\ pc = "idle"
  /\ \E config \in ConfigDocs :
        LET r == validateConfiguration(config)
        IN /\ op' = "validateConfiguration"
           /\ cfg' = config
           /\ result' = r
           /\ pc' = IF r.threw THEN "thrown" ELSE "done"
           /\ error' = IF r.threw THEN RawError("TypeError") ELSE error
  /\ UNCHANGED <<heap, data, orig, cur, steps, mutated>>

LoadConfiguration ==
  /\ pc = "idle"
  /\ \E file \in ConfigFiles :
        LET r == load(file)
        IN /\ op' = "load"
           /\ cfg' = file
           /\ result' = r.config
           /\ pc' = IF r.ok THEN "done" ELSE "thrown"
           /\ error' = r.err
  /\ UNCHANGED <<heap, data, orig, cur, steps, mutated>>

NextValidator ==
  \/ ValidateHeaderMappings
  \/ ValidateColumnOrder
  \/ ValidateValueReplacements
  \/ ValidateFixedColumns
  \/ ValidateDeleteConditions
  \/ ValidateDeleteConditionsWithHeaders
  \/ ValidateConfiguration
  \/ LoadConfiguration

SpecValidator == Init /\ [][NextValidator]_vars

(* ============================== pipeline =============================== *)
(* The engine called with a configuration as JSON.parse returned it, and    *)
(* CSVConverterApp.execute: parse, load the configuration, delete rows,     *)
(* transform, write, encode.                                                *)

\* The texts of a list of strings.
Texts(items) == [k \in 1..Len(items) |-> items[k].s]

\* value.length: arrays and strings have one, numbers and objects do not.
Length(v) ==
  CASE v.t = "array" -> Len(v.e)
    [] v.t = "string" -> Len(v.s)
    [] OTHER -> 0

(* "JSON.parse(fileContent) as TransformationConfig": the engine reads the  *)
(* document through the declared types without converting it. The entries   *)
(* of the fields are of the declared types; a field as a whole, a           *)
(* replacement map or a condition may be of another type.                   *)

AsHeaderMappings(v) ==
  LET entries == ObjectEntries(v)
  IN [k \in 1..Len(entries) |->
        IF entries[k].v.t = "array"
        THEN Many(entries[k].k, Texts(entries[k].v.e))
        ELSE One(entries[k].k, entries[k].v.s)]

AsFixedColumns(v) ==
  LET entries == ObjectEntries(v)
  IN [k \in 1..Len(entries) |->
        IF entries[k].v.t = "number"
        THEN FNum(entries[k].k, entries[k].v.n)
        ELSE FStr(entries[k].k, entries[k].v.s)]

AsColumnOrder(v) == IF v.t = "array" THEN Texts(v.e) ELSE <<>>

AsReplacementMap(v) ==
  LET entries == ObjectEntries(v)
  IN [k \in 1..Len(entries) |-> Rep(entries[k].k, entries[k].v.s)]

AsValueReplacements(v) ==
  LET entries == ObjectEntries(v)
  IN [k \in 1..Len(entries) |-> ColRep(entries[k].k, AsReplacementMap(entries[k].v))]

AsCondition(v) ==
  LET value == Get(v, "value")
  IN Cond(Get(v, "column").s, value.t = "array",
          IF value.t = "array" THEN Texts(value.e) ELSE <<value.s>>)

AsDeleteConditions(v) ==
  IF v.t = "array" THEN [k \in 1..Len(v.e) |-> AsCondition(v.e[k])] ELSE <<>>

TransformationFields == {"headerMappings", "fixedColumns", "columnOrder", "valueReplacements"}

\* if (config.field): the fields that are set are the truthy ones.
AsConfig(config) ==
  Cfg({f \in TransformationFields \cup {"deleteConditions"} : ToBoolean(Get(config, f))},
      AsHeaderMappings(Get(config, "headerMappings")),
      AsFixedColumns(Get(config, "fixedColumns")),
      AsColumnOrder(Get(config, "columnOrder")),
      AsValueReplacements(Get(config, "valueReplacements")),
      AsDeleteConditions(Get(config, "deleteConditions")))

\* The TypeError an operation raises on a value that has not the declared
\* type: order.filter and conditions.map exist on arrays only, condition.column
\* cannot be read of null, and columnReplacements.hasOwnProperty cannot be
\* read of null once a cell of the column is looked up.
ThrowsTypeError(name, t, config) ==
  CASE name = "reorderColumns" -> Get(config, "columnOrder").t # "array"
    [] name = "deleteRows" ->
         \/ Get(config, "deleteConditions").t # "array"
         \/ JNull \in Range(Get(config, "deleteConditions").e)
    [] name = "replaceValues" ->
         \E p \in Range(ObjectEntries(Get(config, "valueReplacements"))) :
            /\ p.v.t = "null"
            /\ HeaderIndex(t.headers, p.k) # 0
            /\ \E i \in 1..Len(t.rows) : HeaderIndex(t.headers, p.k) <= Len(t.rows[i])
    [] OTHER -> FALSE

\* error instanceof CSVConverterError
IsCSVConverterError(e) == e.code # ""

Catch_rethrow(r) == r

\* catch (error) of transform and of deleteRows: a CSVConverterError is
\* thrown on as it is, any other exception goes through
\* handleTransformationError with its own message.
Catch(r) ==
  IF r.ok \/ IsCSVConverterError(r.err) THEN r
  ELSE Thrown(r.heap, handleTransformationError(r.err.tmpl, <<>>))

\* The element of a set of one element.
The(S) == CHOOSE x \in S : TRUE

\* One operation of the engine on a parsed configuration; typed is the
\* configuration as the operation reads it.
InvokeParsed(name, h, table, config) ==
  IF ThrowsTypeError(name, TableVal(h, table), config)
  THEN Thrown(h, RawError("TypeError"))
  ELSE The({Invoke(name, h, table, typed) : typed \in {AsConfig(config)}})

\* DataDeleterImpl.deleteRows(table, conditions), conditions being the
\* deleteConditions of config.
DeleterDeleteRows(h, table, config) == Catch(InvokeParsed("deleteRows", h, table, config))

RECURSIVE TransformSteps(_, _, _, _)
\* The statements of the try block of transform from the given step on.
TransformSteps(h, transformedData, config, names) ==
  IF names = <<>> THEN Returned(h, transformedData)
  ELSE IF ~ToBoolean(Get(config, FieldOf(Head(names))))
  THEN TransformSteps(h, transformedData, config, Tail(names))
  ELSE The({IF r.ok THEN TransformSteps(r.heap, r.out, config, Tail(names)) ELSE r :
              r \in {InvokeParsed(Head(names), h, transformedData, config)}})

\* DataTransformerImpl.transform(data, config)
transform(h, table, config) == Catch(TransformSteps(h, table, config, StepOrder))

\* hasTransformations(config)
hasTransformations(config) == \E f \in TransformationFields : ToBoolean(Get(config, f))

\* createError(message): the default code
createError(tmpl) == [code |-> "UNKNOWN_ERROR", tmpl |-> tmpl, names |-> <<>>]

\* catch (error) of execute
ExecuteCatch(e) ==
  IF IsCSVConverterError(e) THEN e
  ELSE createError("Unexpected error during CSV transformation")

\* handleFileError(error, path, operation)
handleFileError(cause, operation) ==
  [code |-> CASE cause = "ENOENT" -> "FILE_NOT_FOUND"
              [] cause \in {"EACCES", "EPERM"} -> "FILE_ACCESS_DENIED"
              [] cause \in {"ENOSPC", "EMFILE", "ENFILE"} -> "OUTPUT_ERROR"
              [] OTHER -> IF operation = "read" THEN "FILE_ACCESS_DENIED" ELSE "OUTPUT_ERROR",
   tmpl |-> cause,
   names |-> <<>>]

\* handleCSVError(error)
handleCSVError(tmpl) == [code |-> "INVALID_CSV_FORMAT", tmpl |-> tmpl, names |-> <<>>]

\* What parse rejects with: the file is missing, its text is not a table
\* (no header, a repeated header, a row of another width), or the read
\* stream fails, which is the one rejection that is no CSVConverterError.
ParseErrors ==
  {handleFileError("ENOENT", "read"), handleCSVError("invalid"), RawError("stream")}

\* What parse resolves with: at least one header, the headers pairwise
\* distinct, every row as wide as the headers.
ParsedTables == {t \in RectTables : Len(t.headers) > 0}

\* validateCSVData(data) of the writer: the error it throws, NoErr if none.
validateCSVData(t) ==
  IF Len(t.headers) = 0
  THEN handleValidationError("CSV must have at least one header column")
  ELSE IF \E i \in 1..Len(t.rows) : Len(t.rows[i]) # Len(t.headers)
  THEN handleValidationError("Row has columns but expected columns")
  ELSE NoErr

\* writer.write(data, outputPath): io tells whether the file system takes
\* the file.
write(t, io) ==
  IF validateCSVData(t) # NoErr THEN validateCSVData(t)
  ELSE IF ~io THEN handleFileError("ENOSPC", "write")
  ELSE NoErr

\* encoder.encode(outputPath, outputEncoding)
encode(outputEncoding, io) ==
  IF ToLowerCase(outputEncoding.s) \notin supportedEncodings
  THEN handleValidationError("Unsupported encoding")
  ELSE IF ~io THEN handleTransformationError("Failed to encode file", <<>>)
  ELSE NoErr

\* The configuration execute works with: {} unless a path is given.
ConfigOf(file) == IF file.kind = "json" THEN file.value ELSE JObj(<<>>)

StageOrder_transformFirst == <<"load", "transform", "delete", "write", "encode">>

\* The stages of execute after parsing, in the order of its statements.
StageOrder == <<"load", "delete", "transform", "write", "encode">>

StageIndex(name) == CHOOSE k \in 1..Len(StageOrder) : StageOrder[k] = name

NextStage(name) ==
  IF StageIndex(name) = Len(StageOrder) THEN "done" ELSE StageOrder[StageIndex(name) + 1]

Continue_always(ok, name) == NextStage(name)

\* A stage that returns is followed by the next statement; one that throws
\* leaves the try block for the catch clause, which rejects.
Continue(ok, name) == IF ok THEN NextStage(name) ELSE "thrown"

(* ----------------------- inputs of the pipeline ------------------------ *)

\* {column: column, value: value}
ConditionDoc(column, value) == JObj(<<JProp("column", JStr(column)), JProp("value", value)>>)

\* Configuration documents handed to execute: every field absent or set, a
\* condition on an original header ("a", "b") or on a mapped one ("d"), and
\* documents the validator rejects or fails on.
PipelineDocs ==
  {ConfigDoc(hm, co, vr, fc, dc, oe) :
     hm \in {JUndefined, JObj(<<JProp("a", JStr("d"))>>),
             JObj(<<JProp("b", JArr(<<JStr("d"), JStr("e")>>))>>)},
     co \in {JUndefined, JArr(<<>>), JArr(<<JStr("d"), JStr("b")>>)},
     vr \in {JUndefined, JObj(<<JProp("d", JObj(<<JProp("x", JStr("y"))>>))>>)},
     fc \in {JUndefined, JObj(<<JProp("f", JStr("v"))>>)},
     dc \in {JUndefined, JArr(<<>>),
             JArr(<<ConditionDoc("a", JStr("x"))>>),
             JArr(<<ConditionDoc("d", JArr(<<JStr("x"), JStr("")>>))>>)},
     oe \in {JUndefined, JStr("utf8")}}
    \cup {JNum(5), JNull,
          ConfigDoc(JUndefined, JNum(5), JUndefined, JUndefined, JUndefined, JUndefined),
          ConfigDoc(JObj(<<>>), JNum(5), JUndefined, JUndefined, JUndefined, JUndefined),
          ConfigDoc(JObj(<<JProp("a", JStr("b")), JProp("b", JStr("a"))>>),
                    JUndefined, JUndefined, JUndefined, JUndefined, JUndefined),
          ConfigDoc(JUndefined, JUndefined, JUndefined, JObj(<<JProp("a", JNum(7))>>),
                    JUndefined, JUndefined),
          ConfigDoc(JUndefined, JUndefined, JUndefined, JUndefined, JArr(<<JNull>>), JUndefined),
          ConfigDoc(JUndefined, JUndefined, JUndefined, JUndefined, JUndefined, JStr("latin1"))}

\* The configPath argument: none given, or a path to one of the files.
PipelineFiles ==
  {File("none", JUndefined), File("missing", JUndefined), File("malformed", JUndefined)}
    \cup {File("json", config) : config \in PipelineDocs}

\* Configurations handed to transform and deleteRows by a caller that has
\* not validated them.
ParsedDocs ==
  {ConfigDoc(hm, co, vr, fc, dc, JUndefined) :
     hm \in {JUndefined, JObj(<<JProp("a", JStr("d"))>>)},
     co \in {JUndefined, JArr(<<JStr("z"), JStr("a")>>), JNum(5), JObj(<<>>)},
     vr \in {JUndefined, JObj(<<JProp("a", JNull)>>),
             JObj(<<JProp("a", JObj(<<JProp("x", JStr("y"))>>))>>)},
     fc \in {JUndefined, JObj(<<JProp("a", JStr("v"))>>)},
     dc \in {JArr(<<ConditionDoc("a", JStr("x"))>>),
             JArr(<<ConditionDoc("z", JStr("x"))>>),
             JArr(<<ConditionDoc("a", JStr("x")), JNull>>), JNum(5)}}

(* ------------------------------ execute -------------------------------- *)
(* cfg is the configuration file, data csvData, cur processedData and then *)
(* transformedData, result the table the writer has written, steps the     *)
(* stages that were called, pc the stage execute is at.                    *)

\* const csvData = await this.parser.parse(inputPath)
ExecuteParse ==
  /\ pc = "idle"
  /\ \E t \in ParsedTables, file \in PipelineFiles :
        /\ heap' = Load(t)
        /\ orig' = t
        /\ cfg' = file
  /\ op' = "execute"
  /\ data' = LoadedRef
  /\ cur' = LoadedRef
  /\ steps' = <<"parse">>
  /\ pc' = StageOrder[1]
  /\ UNCHANGED <<result, error, mutated>>

\* parse rejects
ExecuteParseRejects ==
  /\ pc = "idle"
  /\ \E e \in ParseErrors, file \in PipelineFiles :
        /\ error' = ExecuteCatch(e)
        /\ cfg' = file
  /\ op' = "execute"
  /\ steps' = <<"parse">>
  /\ pc' = "thrown"
  /\ UNCHANGED <<heap, data, orig, cur, result, mutated>>

\* if (configPath) config = await this.configLoader.load(configPath)
ExecuteLoad ==
  /\ op = "execute"
  /\ pc = "load"
  /\ IF cfg.kind # "none"
     THEN LET r == load(cfg)
          IN /\ steps' = Append(steps, "load")
             /\ error' = IF r.ok THEN error ELSE ExecuteCatch(r.err)
             /\ pc' = Continue(r.ok, "load")
     ELSE /\ pc' = NextStage("load")
          /\ UNCHANGED <<steps, error>>
  /\ UNCHANGED <<heap, op, cfg, data, orig, cur, result, mutated>>

\* if (config.deleteConditions && config.deleteConditions.length > 0)
\*   processedData = this.deleter.deleteRows(csvData, config.deleteConditions)
ExecuteDelete ==
  /\ op = "execute"
  /\ pc = "delete"
  /\ LET deleteConditions == Get(ConfigOf(cfg), "deleteConditions")
     IN IF ToBoolean(deleteConditions) /\ Length(deleteConditions) > 0
        THEN LET r == DeleterDeleteRows(heap, data, ConfigOf(cfg))
             IN /\ heap' = r.heap
                /\ steps' = Append(steps, "deleteRows")
                /\ error' = IF r.ok THEN error ELSE ExecuteCatch(r.err)
                /\ cur' = IF r.ok THEN r.out ELSE cur
                /\ pc' = Continue(r.ok, "delete")
        ELSE /\ pc' = NextStage("delete")
             /\ cur' = data
             /\ UNCHANGED <<heap, steps, error>>
  /\ UNCHANGED <<op, cfg, data, orig, result, mutated>>

\* if (this.hasTransformations(config))
\*   transformedData = this.transformer.transform(processedData, config)
ExecuteTransform ==
  /\ op = "execute"
  /\ pc = "transform"
  /\ IF hasTransformations(ConfigOf(cfg))
     THEN LET r == transform(heap, cur, ConfigOf(cfg))
          IN /\ heap' = r.heap
             /\ steps' = Append(steps, "transform")
             /\ error' = IF r.ok THEN error ELSE ExecuteCatch(r.err)
             /\ cur' = IF r.ok THEN r.out ELSE cur
             /\ pc' = Continue(r.ok, "transform")
     ELSE /\ pc' = NextStage("transform")
          /\ UNCHANGED <<heap, steps, error, cur>>
  /\ UNCHANGED <<op, cfg, data, orig, result, mutated>>

\* await this.writer.write(transformedData, outputPath)
ExecuteWrite ==
  /\ op = "execute"
  /\ pc = "write"
  /\ \E io \in BOOLEAN :
        LET e == write(TableVal(heap, cur), io)
        IN /\ error' = IF e = NoErr THEN error ELSE ExecuteCatch(e)
           /\ result' = IF e = NoErr THEN cur ELSE result
           /\ pc' = Continue(e = NoErr, "write")
  /\ steps' = Append(steps, "write")
  /\ UNCHANGED <<heap, op, cfg, data, orig, cur, mutated>>

\* if (config.outputEncoding) await this.encoder.encode(outputPath, config.outputEncoding)
ExecuteEncode ==
  /\ op = "execute"
  /\ pc = "encode"
  /\ IF ToBoolean(Get(ConfigOf(cfg), "outputEncoding"))
     THEN \E io \in BOOLEAN :
             LET e == encode(Get(ConfigOf(cfg), "outputEncoding"), io)
             IN /\ error' = IF e = NoErr THEN error ELSE ExecuteCatch(e)
                /\ pc' = Continue(e = NoErr, "encode")
                /\ steps' = Append(steps, "encode")
     ELSE /\ pc' = NextStage("encode")
          /\ UNCHANGED <<steps, error>>
  /\ UNCHANGED <<heap, op, cfg, data, orig, cur, result, mutated>>

\* A direct call of transform or deleteRows with a parsed configuration.
CallParsed(name, t, config, r) ==
  /\ heap' = r.heap
  /\ op' = name
  /\ cfg' = config
  /\ data' = LoadedRef
  /\ orig' = t
  /\ result' = r.out
  /\ error' = r.err
  /\ pc' = IF r.ok THEN "done" ELSE "thrown"
  /\ UNCHANGED <<cur, steps, mutated>>

CallTransformParsed ==
  /\ pc = "idle"
  /\ \E t \in ParsedTables, config \in ParsedDocs :
        CallParsed("transform", t, config, transform(Load(t), LoadedRef, config))

CallDeleteRowsParsed ==
  /\ pc = "idle"
  /\ \E t \in ParsedTables, config \in ParsedDocs :
        CallParsed("deleteRows", t, config, DeleterDeleteRows(Load(t), LoadedRef, config))

\* The configuration validateConfiguration returns without a hard error.
IsAccepted(config) ==
  /\ ~validateConfiguration(config).threw
  /\ validateConfiguration(config).errors = <<>>

\* Configurations a caller offers to the validator before transform.
OfferedDocs ==
  {ConfigDoc(hm, co, JUndefined, fc, JUndefined, JUndefined) :
     hm \in {JUndefined, JObj(<<JProp("a", JStr("d"))>>),
             JObj(<<JProp("a", JStr("b"))>>),
             JObj(<<JProp("b", JArr(<<JStr("d"), JStr("e")>>))>>),
             JObj(<<JProp("a", JStr("d")), JProp("b", JStr("d"))>>),
             JObj(<<JProp("a", JArr(<<>>))>>)},
     co \in {JUndefined, JArr(<<>>), JArr(<<JStr("d"), JStr("b")>>),
             JArr(<<JStr("b")>>), JArr(<<JStr("b"), JStr("b")>>)},
     fc \in {JUndefined, JObj(<<JProp("f", JStr("v"))>>),
             JObj(<<JProp("a", JNum(7))>>), JObj(<<JProp("b", JStr("v"))>>),
             JObj(<<JProp("d", JStr("v"))>>)}}

ValidatedDocs == {config \in OfferedDocs : IsAccepted(config)}

\* transform called with a configuration validateConfiguration accepted
CallTransformValidated ==
  /\ pc = "idle"
  /\ \E t \in ParsedTables, config \in ValidatedDocs :
        CallParsed("transform", t, config, transform(Load(t), LoadedRef, config))

NextExecute ==
  \/ ExecuteParse
  \/ ExecuteParseRejects
  \/ ExecuteLoad
  \/ ExecuteDelete
  \/ ExecuteTransform
  \/ ExecuteWrite
  \/ ExecuteEncode
  \/ CallTransformParsed
  \/ CallDeleteRowsParsed
  \/ CallTransformValidated

SpecExecute == Init /\ [][NextExecute]_vars

(* ------------------------------- Logger -------------------------------- *)
(* Every CSVConverterApp holds getLogger(), the one Logger.instance of the *)
(* process. Here cfg is the list of the execute calls made so far (the app *)
(* called and its verbose argument), cur the currentLevel of               *)
(* Logger.instance, steps the entries the outputs received during the      *)
(* latest call, data the number of log calls that call has made, pc "idle" *)
(* between calls and "running" within one.                                 *)

\* The largest number of execute calls of one process.
MaxCalls == 3

\* The app instances of the process.
Apps == {1, 2}

\* enum LogLevel
LogLevel == [ERROR |-> 0, WARN |-> 1, INFO |-> 2, DEBUG |-> 3]

LogEntry(level, message) == [level |-> level, message |-> message]

\* The log calls of an execute without configuration file, in order: of
\* execute itself and of the writer it calls.
ExecuteLogCalls ==
  <<LogEntry(LogLevel.INFO, "Starting CSV transformation pipeline"),
    LogEntry(LogLevel.INFO, "No transformations to apply - using processed data"),
    LogEntry(LogLevel.DEBUG, "Writing CSV data to"),
    LogEntry(LogLevel.DEBUG, "No output encoding specified - file remains in UTF-8"),
    LogEntry(LogLevel.INFO, "CSV transformation completed successfully!")>>

\* if (verbose) { this.logger.setLevel(LogLevel.DEBUG); }
LevelAfter(currentLevel, verbose) ==
  IF verbose THEN LogLevel.DEBUG ELSE currentLevel

\* Logger.log(level, message): the entries the outputs have received.
log(written, currentLevel, entry) ==
  IF entry.level <= currentLevel THEN Append(written, entry) ELSE written

\* private currentLevel: LogLevel = LogLevel.INFO
InitLogger ==
  /\ heap = EmptyHeap
  /\ op = "none"
  /\ cfg = <<>>
  /\ data = 0
  /\ orig = [headers |-> <<>>, rows |-> <<>>]
  /\ pc = "idle"
  /\ cur = LogLevel.INFO
  /\ steps = <<>>
  /\ result = NoRef
  /\ error = NoErr
  /\ mutated = FALSE

\* app.execute(inputPath, outputPath, undefined, verbose), up to its first
\* log call
ExecuteSetLevel ==
  /\ pc = "idle"
  /\ Len(cfg) < MaxCalls
  /\ \E app \in Apps, verbose \in BOOLEAN :
        /\ cfg' = Append(cfg, [app |-> app, verbose |-> verbose])
        /\ cur' = LevelAfter(cur, verbose)
  /\ op' = "execute"
  /\ steps' = <<>>
  /\ data' = 0
  /\ pc' = "running"
  /\ UNCHANGED <<heap, orig, result, error, mutated>>

\* The next log call of the running execute.
ExecuteLog ==
  /\ pc = "running"
  /\ data < Len(ExecuteLogCalls)
  /\ steps' = log(steps, cur, ExecuteLogCalls[data + 1])
  /\ data' = data + 1
  /\ UNCHANGED <<heap, op, cfg, orig, pc, cur, result, error, mutated>>

\* execute returns; nothing restores the level.
ExecuteReturn ==
  /\ pc = "running"
  /\ data = Len(ExecuteLogCalls)
  /\ pc' = "idle"
  /\ UNCHANGED <<heap, op, cfg, data, orig, cur, steps, result, error, mutated>>

NextLogger ==
  \/ ExecuteSetLevel
  \/ ExecuteLog
  \/ ExecuteReturn

SpecLogger == InitLogger /\ [][NextLogger]_vars

(* ----------------------------- observations ---------------------------- *)

\* The operation has returned and the caller has not touched the result.
Completed(name) == op = name /\ pc = "done" /\ ~mutated

\* The returned table, cell by cell.
Out == TableVal(heap, result)

\* The position of a name in a list of pairwise distinct headers, 0 if absent.
ColumnOf(headers, name) ==
  IF \E i \in 1..Len(headers) : headers[i] = name
  THEN CHOOSE i \in 1..Len(headers) : headers[i] = name
  ELSE 0

\* The cell of a row at a position, an absent cell read as the empty string.
CellAt(row, i) == IF i \in 1..Len(row) THEN row[i] ELSE ""

\* One operation run on a table given by value: whether it returns, the table
\* it returns and the error it throws.
RunOp(name, t, config) ==
  LET r == Invoke(name, Load(t), LoadedRef, config)
  IN [ok |-> r.ok,
      table |-> IF r.ok THEN TableVal(r.heap, r.out) ELSE [headers |-> <<>>, rows |-> <<>>],
      err |-> r.err]

(* --------------------------------- C1 ---------------------------------- *)

DocumentedOrder == <<"mapHeaders", "addFixedColumns", "reorderColumns", "replaceValues">>

Rank(name) == CHOOSE k \in 1..Len(DocumentedOrder) : DocumentedOrder[k] = name

RECURSIVE Pipeline(_, _, _)
\* The configured steps among names, each run on the table the previous one
\* returned; the first error ends the run.
Pipeline(t, config, names) ==
  IF names = <<>>
  THEN [ok |-> TRUE, table |-> t, err |-> NoErr]
  ELSE IF FieldOf(Head(names)) \notin config.fields
  THEN Pipeline(t, config, Tail(names))
  ELSE LET r == RunOp(Head(names), t, config)
       IN IF r.ok THEN Pipeline(r.table, config, Tail(names)) ELSE r

\* C1: transform starts its steps in the order header mapping, fixed-column
\* addition, column reordering, value replacement; it starts exactly the steps
\* whose field is set, skipping the others; and what it returns (or throws) is
\* what the configured steps give when each runs on the table returned by the
\* previous one, so that columnOrder and valueReplacements see the mapped header
\* names and the fixed columns.
C1_FixedOrder ==
  (op = "transform" /\ ~mutated) =>
    /\ \A i, j \in 1..Len(steps) : i < j => Rank(steps[i]) < Rank(steps[j])
    /\ \A i \in 1..Len(steps) : FieldOf(steps[i]) \in cfg.fields
    /\ \A name \in Range(DocumentedOrder) :
          ( /\ FieldOf(name) \in cfg.fields
            /\ \/ pc = "done"
               \/ \E i \in 1..Len(steps) : Rank(steps[i]) > Rank(name) )
          => name \in Range(steps)
    /\ pc \in {"done", "thrown"} =>
          LET expected == Pipeline(orig, cfg, DocumentedOrder)
          IN /\ (pc = "done") = expected.ok
             /\ pc = "done" => Out = expected.table
             /\ pc = "thrown" => error = expected.err

\* All four steps ran; columnOrder named a fixed column and a mapped header, and
\* a value was replaced in the column under its mapped name.
C1_Witness ==
  /\ Completed("transform")
  /\ steps = DocumentedOrder
  /\ orig.headers = <<"a", "b">>
  /\ Out.headers = <<"f", "d">>
  /\ \E i \in 1..Len(Out.rows) : orig.rows[i][1] = "x" /\ Out.rows[i] = <<"v", "y">>

(* --------------------------------- C2 ---------------------------------- *)

\* headerMappings, valueReplacements and fixedColumns absent or empty,
\* columnOrder absent.
IsNoOpConfig(config) ==
  /\ config.headerMappings = <<>>
  /\ config.valueReplacements = <<>>
  /\ config.fixedColumns = <<>>
  /\ "columnOrder" \notin config.fields

HasEntry(mappings, header) == \E k \in 1..Len(mappings) : mappings[k].key = header

EntryOf(mappings, header) ==
  mappings[CHOOSE k \in 1..Len(mappings) : mappings[k].key = header]

\* The names that replace the header at position i, and how many there are.
NamesAt(headers, mappings, i) ==
  IF HasEntry(mappings, headers[i]) THEN EntryOf(mappings, headers[i]).names
  ELSE <<headers[i]>>

RECURSIVE WidthBefore(_, _, _)
\* The number of output columns that come from the headers before position i.
WidthBefore(headers, mappings, i) ==
  IF i <= 1 THEN 0
  ELSE WidthBefore(headers, mappings, i - 1) + Len(NamesAt(headers, mappings, i - 1))

Matches(headers, row, condition) ==
  LET cell == CellAt(row, ColumnOf(headers, condition.column))
  IN \E k \in 1..Len(condition.values) : cell = condition.values[k]

AllColumnsExist(headers, conditions) ==
  \A k \in 1..Len(conditions) : conditions[k].column \in Range(headers)

\* C4: when every condition's column exists, deleteRows returns; the headers are
\* those of the input and the rows are the input rows that do not match every
\* condition, unmodified and in their original order.
C4_DeleteRows ==
  (op = "deleteRows" /\ ~mutated /\ AllColumnsExist(orig.headers, cfg.deleteConditions)) =>
    /\ pc = "done"
    /\ Out.headers = orig.headers
    /\ Out.rows =
         SelectSeq(orig.rows,
                   LAMBDA row : ~(\A k \in 1..Len(cfg.deleteConditions) :
                                     Matches(orig.headers, row, cfg.deleteConditions[k])))

\* Two conditions, a value list and a single value; the first row matches only
\* the first condition and is kept, the second matches both and is removed.
C4_Witness ==
  /\ Completed("deleteRows")
  /\ cfg.deleteConditions = <<Cond("b", TRUE, <<"x", "">>), Cond("a", FALSE, <<"x">>)>>
  /\ orig = [headers |-> <<"a", "b">>, rows |-> << <<"", "x">>, <<"x", "x">> >>]
  /\ Out.rows = << <<"", "x">> >>

(* --------------------------------- C5 ---------------------------------- *)

\* C5: when every name of order is a header, reorderColumns returns; the output
\* headers are exactly order, and each output row has one cell per name of
\* order, holding the row's value of that column.
C5_ReorderColumns ==
  (op = "reorderColumns" /\ ~mutated /\ Range(cfg.columnOrder) \subseteq Range(orig.headers)) =>
    /\ pc = "done"
    /\ Out.headers = cfg.columnOrder
    /\ Len(Out.rows) = Len(orig.rows)
    /\ \A r \in 1..Len(orig.rows) :
          /\ Len(Out.rows[r]) = Len(cfg.columnOrder)
          /\ \A k \in 1..Len(cfg.columnOrder) :
                Out.rows[r][k] = CellAt(orig.rows[r], ColumnOf(orig.headers, cfg.columnOrder[k]))

\* The columns are swapped in a row with two different cells.
C5_Witness ==
  /\ Completed("reorderColumns")
  /\ orig.headers = <<"a", "b">>
  /\ cfg.columnOrder = <<"b", "a">>
  /\ \E r \in 1..Len(orig.rows) : orig.rows[r] = <<"x", "">> /\ Out.rows[r] = <<"", "x">>

\* A column that is not listed is dropped.
C5_WitnessDropped ==
  /\ Completed("reorderColumns")
  /\ orig.headers = <<"a", "b">>
  /\ cfg.columnOrder = <<"b">>
  /\ \E r \in 1..Len(orig.rows) : orig.rows[r] = <<"x", "">> /\ Out.rows[r] = <<"">>

(* --------------------------------- C6 ---------------------------------- *)

HasColumn(replacements, name) == \E k \in 1..Len(replacements) : replacements[k].column = name

MapFor(replacements, name) ==
  replacements[CHOOSE k \in 1..Len(replacements) : replacements[k].column = name].map

IsKey(map, value) == \E k \in 1..Len(map) : map[k].from = value

ValueFor(map, value) == map[CHOOSE k \in 1..Len(map) : map[k].from = value].to

\* C6: replaceValues returns the headers unchanged and rows of the same shape;
\* a cell whose column is named in the replacement map and whose value is a key
\* of that column's map holds the value mapped to that key, and every other cell
\* holds its old value; names of the map that are no header are ignored.
C6_ReplaceValues ==
  (op = "replaceValues" /\ ~mutated) =>
    /\ pc = "done"
    /\ Out.headers = orig.headers
    /\ Len(Out.rows) = Len(orig.rows)
    /\ \A r \in 1..Len(orig.rows) :
          /\ Len(Out.rows[r]) = Len(orig.rows[r])
          /\ \A j \in 1..Len(orig.rows[r]) :
                LET old == orig.rows[r][j]
                    name == orig.headers[j]
                IN Out.rows[r][j] =
                     IF HasColumn(cfg.valueReplacements, name)
                        /\ IsKey(MapFor(cfg.valueReplacements, name), old)
                     THEN ValueFor(MapFor(cfg.valueReplacements, name), old)
                     ELSE old

\* The map of column a sends x to y and y to z, and the map names z, which is no
\* header: a cell x of column a became y, and a cell x of column b stayed.
C6_Witness ==
  /\ Completed("replaceValues")
  /\ orig.headers = <<"a", "b">>
  /\ cfg.valueReplacements =
       <<ColRep("z", <<Rep("x", "y")>>), ColRep("a", <<Rep("x", "y"), Rep("y", "z")>>)>>
  /\ \E r \in 1..Len(orig.rows) : orig.rows[r] = <<"x", "x">> /\ Out.rows[r] = <<"y", "x">>

(* --------------------------------- C7 ---------------------------------- *)

NoCollision(headers, fixedColumns) ==
  \A k \in 1..Len(fixedColumns) : fixedColumns[k].name \notin Range(headers)

\* C7: when no fixed name is a header, addFixedColumns returns; the output
\* headers are the input headers followed by the fixed names in the order of the
\* entries, and every output row is the input row followed by the string form of
\* each fixed value in that order; no row is added.
C7_AddFixedColumns ==
  (op = "addFixedColumns" /\ ~mutated /\ NoCollision(orig.headers, cfg.fixedColumns)) =>
    /\ pc = "done"
    /\ Out.headers = orig.headers \o [k \in 1..Len(cfg.fixedColumns) |-> cfg.fixedColumns[k].name]
    /\ Len(Out.rows) = Len(orig.rows)
    /\ \A r \in 1..Len(orig.rows) :
          Out.rows[r] = orig.rows[r]
                          \o [k \in 1..Len(cfg.fixedColumns) |-> String(cfg.fixedColumns[k])]

\* A numeric and a string constant, in the order of the entries.
C7_Witness ==
  /\ Completed("addFixedColumns")
  /\ orig.headers = <<"a">>
  /\ cfg.fixedColumns = <<FNum("k", 12), FStr("f", "v")>>
  /\ Out.headers = <<"a", "k", "f">>
  /\ Len(Out.rows) = 2
  /\ Out.rows[1] = <<"x", "12", "v">>

\* A table without rows yields no rows.
C7_WitnessNoRows ==
  /\ Completed("addFixedColumns")
  /\ orig.rows = <<>>
  /\ Len(cfg.fixedColumns) = 2
  /\ Out.rows = <<>>

(* --------------------------------- C8 ---------------------------------- *)

\* The table the failing operation was called on.
Operand == IF op = "transform" THEN TableVal(heap, cur) ELSE orig

\* The names the message of the error lists, for each of the three errors.
Offending(tmpl) ==
  CASE tmpl = "columnOrderMissing" ->
         SelectSeq(cfg.columnOrder, LAMBDA n : n \notin Range(Operand.headers))
    [] tmpl = "deleteMissing" ->
         SelectSeq([k \in 1..Len(cfg.deleteConditions) |-> cfg.deleteConditions[k].column],
                   LAMBDA n : n \notin Range(Operand.headers))
    [] tmpl = "fixedDuplicate" ->
         SelectSeq([k \in 1..Len(cfg.fixedColumns) |-> cfg.fixedColumns[k].name],
                   LAMBDA n : n \in Range(Operand.headers))

\* The error the operation has to fail with on the table, "" if none.
Failure(name, t, config) ==
  CASE name = "reorderColumns" ->
         IF Range(config.columnOrder) \subseteq Range(t.headers) THEN "" ELSE "columnOrderMissing"
    [] name = "deleteRows" ->
         IF AllColumnsExist(t.headers, config.deleteConditions) THEN "" ELSE "deleteMissing"
    [] name = "addFixedColumns" ->
         IF NoCollision(t.headers, config.fixedColumns) THEN "" ELSE "fixedDuplicate"
    [] OTHER -> ""

\* C8: reorderColumns with a missing requested column, deleteRows with a missing
\* condition column and addFixedColumns with a fixed name that is a header fail
\* with one error that lists every offending column of the call, and return no
\* table.
C8_AggregatedErrors ==
  /\ (op \in {"reorderColumns", "deleteRows", "addFixedColumns"} /\ Failure(op, orig, cfg) # "") =>
        /\ pc = "thrown"
        /\ error.tmpl = Failure(op, orig, cfg)
  /\ pc = "thrown" =>
        /\ error.names = Offending(error.tmpl)
        /\ error.names # <<>>
        /\ result = NoRef

\* Each of the three errors with two offending columns.
C8_Witness ==
  /\ pc = "thrown"
  /\ op = "addFixedColumns"
  /\ error.tmpl = "fixedDuplicate"
  /\ error.names = <<"b", "a">>

C8_WitnessReorder ==
  /\ pc = "thrown"
  /\ op = "reorderColumns"
  /\ error.names = <<"z", "w">>
  /\ Len(orig.rows) = 2

C8_WitnessDelete ==
  /\ pc = "thrown"
  /\ op = "deleteRows"
  /\ error.names = <<"z", "w">>
  /\ Len(orig.rows) = 2

(* --------------------------------- C9 ---------------------------------- *)

\* The table read cell by cell under its headers, an absent cell read as "".
ReadTable(t) ==
  [headers |-> t.headers,
   rows |-> [i \in 1..Len(t.rows) |-> [j \in 1..Len(t.headers) |-> CellAt(t.rows[i], j)]]]

\* The table with every short row padded with "" up to the header count.
Pad(t) ==
  [headers |-> t.headers,
   rows |-> [i \in 1..Len(t.rows) |->
               t.rows[i] \o [j \in 1..(Len(t.headers) - Len(t.rows[i])) |-> ""]]]

\* The call behaves on its table as it does on the padded table.
AgreesWithPadded ==
  LET padded == RunOp(op, Pad(orig), cfg)
  IN /\ (pc = "done") = padded.ok
     /\ pc = "done" => ReadTable(Out) = ReadTable(padded.table)
     /\ pc = "thrown" => error = padded.err

\* C9: for deleteRows, mapHeaders, addFixedColumns, reorderColumns and
\* replaceValues, a row with fewer cells than headers causes no failure, and the
\* result read cell by cell under the output headers, an absent cell read as the
\* empty string, is the result on the table with that row padded with empty
\* strings.
C9_MissingCellPolicy ==
  ( /\ op \in {"deleteRows", "mapHeaders", "addFixedColumns", "reorderColumns", "replaceValues"}
    /\ pc \in {"done", "thrown"}
    /\ ~mutated )
  => AgreesWithPadded

\* The part of C9 the code keeps: deleteRows, mapHeaders and reorderColumns.
C9_PolicyKept ==
  ( /\ op \in {"deleteRows", "mapHeaders", "reorderColumns"}
    /\ pc \in {"done", "thrown"}
    /\ ~mutated )
  => AgreesWithPadded

\* addFixedColumns on a short row: the constant lands under an input header.
C9_ShortRowFixed ==
  /\ Completed("addFixedColumns")
  /\ orig = [headers |-> <<"a", "b">>, rows |-> << <<"x">> >>]
  /\ cfg.fixedColumns = <<FStr("f", "v")>>
  /\ Out = [headers |-> <<"a", "b", "f">>, rows |-> << <<"x", "v">> >>]

\* replaceValues on a short row: the absent cell is not replaced, the empty one is.
C9_ShortRowReplaced ==
  /\ Completed("replaceValues")
  /\ orig = [headers |-> <<"a", "b">>, rows |-> << <<"x">>, <<"x", "">> >>]
  /\ cfg.valueReplacements = <<ColRep("b", <<Rep("", "n"), Rep("n", "x")>>)>>
  /\ Out.rows = << <<"x">>, <<"x", "n">> >>

(* --------------------------------- C10 --------------------------------- *)

\* The returned table was built by replaceValues.
ProducedByReplaceValues ==
  \/ op = "replaceValues"
  \/ op = "transform" /\ steps # <<>> /\ steps[Len(steps)] = "replaceValues"

\* C10: during and after a call of deleteRows, mapHeaders, addFixedColumns,
\* reorderColumns, replaceValues or transform, whether it returns or throws, the
\* headers and the rows of the input table are as they were when the call was
\* made; and they still are after the caller has written to a cell of a table
\* that replaceValues returned.
C10_NoMutation ==
  /\ (op # "none" /\ ~mutated) => TableVal(heap, data) = orig
  /\ (mutated /\ ProducedByReplaceValues) => TableVal(heap, data) = orig

\* replaceValues has replaced a cell and the caller has written to the result.
C10_Witness ==
  /\ op = "replaceValues"
  /\ mutated
  /\ orig.rows = << <<"x", "x">> >>
  /\ Out.rows = << <<"!", "y">> >>

\* The rows deleteRows returns are the rows of its input: a write to the result
\* shows in the input.
C10_WitnessShared ==
  /\ op = "deleteRows"
  /\ mutated
  /\ TableVal(heap, data) # orig

\* A call that throws.
C10_WitnessThrown ==
  /\ pc = "thrown"
  /\ op = "transform"
  /\ Len(steps) = 3
  /\ Len(orig.rows) = 2

(* --------------------------------- C14 --------------------------------- *)

\* The value is a validation result whose problems are strings of text.
IsValidationResult(r) ==
  /\ r.isValid \in BOOLEAN
  /\ \A i \in 1..Len(r.errors) : r.errors[i].tmpl # ""
  /\ \A i \in 1..Len(r.warnings) : r.warnings[i].tmpl # ""

\* C14: validateConfiguration never throws: for every configuration value,
\* also one whose fields have the wrong type, the call returns a result
\* {isValid, errors, warnings}.
C14_NeverThrows ==
  op = "validateConfiguration" =>
    /\ pc = "done"
    /\ IsValidationResult(result)

\* A columnOrder of the wrong type is reported as an error when neither
\* headerMappings nor a named fixed column makes the cross-checks read it.
C14_WrongTypeReported ==
  /\ op = "validateConfiguration"
  /\ pc = "done"
  /\ Get(cfg, "columnOrder") = JNum(5)
  /\ Msg("columnOrder must be an array", <<>>) \in Range(result.errors)

(* --------------------------------- C15 --------------------------------- *)

FieldValidators ==
  {"validateHeaderMappings", "validateColumnOrder", "validateValueReplacements",
   "validateFixedColumns", "validateDeleteConditions"}

\* The value has the type the field validator goes through entry by entry.
IsContainer(name, doc) ==
  IF name \in {"validateColumnOrder", "validateDeleteConditions"}
  THEN doc.t = "array"
  ELSE doc.t = "object"

\* The errors of the entries of a field, each entry taken on its own.
EntryErrors(name, doc) ==
  CASE name = "validateHeaderMappings" ->
         [i \in 1..Len(doc.e) |-> HeaderMappingErrors(doc.e[i])]
    [] name = "validateColumnOrder" ->
         [i \in 1..Len(doc.e) |-> ColumnOrderErrors(doc.e[i])]
    [] name = "validateValueReplacements" ->
         [i \in 1..Len(doc.e) |-> ValueReplacementErrors(doc.e[i])]
    [] name = "validateFixedColumns" ->
         [i \in 1..Len(doc.e) |-> FixedColumnErrors(doc.e[i])]
    [] name = "validateDeleteConditions" ->
         [i \in 1..Len(doc.e) |-> DeleteConditionErrors(doc.e[i], i - 1)]

\* C15: the error list of a field validator is complete: every invalid entry
\* of the field contributes its error to the result, whether or not an
\* earlier entry of the field is invalid too.
C15_CompleteErrors ==
  (pc = "done" /\ op \in FieldValidators /\ IsContainer(op, cfg)) =>
    \A i \in 1..Len(cfg.e) :
       Range(EntryErrors(op, cfg)[i]) \subseteq Range(result.errors)

\* The delete conditions are validated to the end: each condition's errors
\* are in the result.
C15_CompleteDeleteConditions ==
  (pc = "done" /\ op = "validateDeleteConditions" /\ IsContainer(op, cfg)) =>
    result.errors = Flatten(EntryErrors(op, cfg))

\* Two conditions are invalid and both are reported.
C15_BothConditionsReported ==
  /\ pc = "done"
  /\ op = "validateDeleteConditions"
  /\ cfg.t = "array"
  /\ Len(cfg.e) = 2
  /\ \A i \in 1..2 : \E k \in 1..Len(result.errors) : result.errors[k].args[1] = NumToStr(i - 1)

(* --------------------------------- C16 --------------------------------- *)

\* The entries hold the one-to-one entry a -> b.
MapsTo(entries, a, b) == \E i \in 1..Len(entries) : entries[i].k = a /\ entries[i].v = JStr(b)

\* The unordered pairs of distinct names mapped to each other.
MirrorPairs(entries) ==
  {{a, b} : a \in Range(ObjectKeys(JObj(entries))), b \in Range(ObjectKeys(JObj(entries)))}
    \ {{a} : a \in Range(ObjectKeys(JObj(entries)))}

IsMirrorPair(entries, pair) ==
  \E a \in pair, b \in pair : a # b /\ MapsTo(entries, a, b) /\ MapsTo(entries, b, a)

\* The circular errors among the errors, as the pairs they name; those of the
\* value replacements are the ones that name the column.
CircularReports(errors, column) ==
  LET hits == SelectSeq(errors,
                LAMBDA e : \/ e.tmpl = "Circular mapping detected"
                           \/ /\ e.tmpl = "Circular replacement detected in column"
                              /\ e.args[1] = column)
  IN [k \in 1..Len(hits) |->
        IF hits[k].tmpl = "Circular mapping detected"
        THEN {hits[k].args[1], hits[k].args[2]}
        ELSE {hits[k].args[2], hits[k].args[3]}]

\* Every mirrored pair of the entries is reported exactly once and nothing else is.
ReportsExactlyThePairs(errors, column, entries) ==
  LET reports == CircularReports(errors, column)
  IN /\ \A pair \in MirrorPairs(entries) :
          IsMirrorPair(entries, pair) =>
            Cardinality({k \in 1..Len(reports) : reports[k] = pair}) = 1
     /\ \A k \in 1..Len(reports) :
          reports[k] \in MirrorPairs(entries) /\ IsMirrorPair(entries, reports[k])

\* C16: validateHeaderMappings, over the string-valued entries, and
\* validateValueReplacements, in each column's map on its own, report a
\* circular error exactly once for every unordered pair of distinct names
\* a, b with a -> b and b -> a both present, whatever the order of the
\* entries, and no circular error otherwise: not for a cycle of three names,
\* not through a list-valued entry, not across two columns.
C16_PairwiseDetection ==
  /\ (pc = "done" /\ op = "validateHeaderMappings" /\ cfg.t = "object") =>
        ReportsExactlyThePairs(result.errors, "", cfg.e)
  /\ (pc = "done" /\ op = "validateValueReplacements" /\ cfg.t = "object") =>
        \A i \in 1..Len(cfg.e) :
           ReportsExactlyThePairs(result.errors, cfg.e[i].k,
                                  IF cfg.e[i].v.t = "object" THEN cfg.e[i].v.e ELSE <<>>)

\* The header-mapping half of C16, and the value-replacement half for the
\* columns that come before the first column with a blank name.
C16_DetectionWhereReached ==
  /\ (pc = "done" /\ op = "validateHeaderMappings" /\ cfg.t = "object") =>
        ReportsExactlyThePairs(result.errors, "", cfg.e)
  /\ (pc = "done" /\ op = "validateValueReplacements" /\ cfg.t = "object") =>
        \A i \in 1..Len(cfg.e) :
           (\A j \in 1..i : ~IsBlankKey(cfg.e[j])) =>
             ReportsExactlyThePairs(result.errors, cfg.e[i].k,
                                    IF cfg.e[i].v.t = "object" THEN cfg.e[i].v.e ELSE <<>>)

\* A cycle of three names is accepted.
C16_ThreeCycleAccepted ==
  /\ pc = "done"
  /\ op = "validateHeaderMappings"
  /\ cfg = JObj(<<JProp("a", JStr("b")), JProp("b", JStr("c")), JProp("c", JStr("a"))>>)
  /\ result.isValid

\* A mirrored pair is reported once, with the later entry first.
C16_PairReportedOnce ==
  /\ pc = "done"
  /\ op = "validateHeaderMappings"
  /\ cfg = JObj(<<JProp("b", JStr("a")), JProp("c", JStr("c")), JProp("a", JStr("b"))>>)
  /\ result.errors = <<Msg("Circular mapping detected", <<"a", "b">>)>>

(* --------------------------------- C17 --------------------------------- *)

\* C17: warnings never block: validateConfiguration returns isValid = true
\* exactly when its error list is empty, whatever its warnings are, and the
\* loader returns the configuration it read when validation gives no error,
\* with or without warnings, and rejects it when validation gives an error.
C17_WarningsNeverBlock ==
  /\ (op = "validateConfiguration" /\ pc = "done") =>
        (result.isValid <=> result.errors = <<>>)
  /\ (op = "load" /\ cfg.kind = "json" /\ ~validateConfiguration(cfg.value).threw) =>
        /\ pc \in {"done", "thrown"}
        /\ pc = "done" <=> validateConfiguration(cfg.value).errors = <<>>
        /\ pc = "done" => result = cfg.value
        /\ pc = "thrown" => error.code = "VALIDATION_ERROR"

\* A configuration with a warning and no error is loaded.
C17_Witness ==
  /\ op = "load"
  /\ pc = "done"
  /\ validateConfiguration(cfg.value).warnings # <<>>
  /\ validateConfiguration(cfg.value).warnings # <<EmptyConfigurationWarning>>
  /\ result = cfg.value

\* A configuration with a warning and an error is rejected.
C17_WitnessRejected ==
  /\ op = "load"
  /\ pc = "thrown"
  /\ cfg.kind = "json"
  /\ validateConfiguration(cfg.value).warnings # <<>>
  /\ validateConfiguration(cfg.value).errors # <<>>
  /\ error.code = "VALIDATION_ERROR"

(* --------------------------------- C18 --------------------------------- *)

\* The name is a key of the header mappings.
IsOriginalName(headerMappings, name) ==
  \E i \in 1..Len(headerMappings.e) : headerMappings.e[i].k = name

\* The name is a string value of the header mappings or an element of one of
\* their list values.
IsMappedName(headerMappings, name) ==
  \E i \in 1..Len(headerMappings.e) :
     LET v == headerMappings.e[i].v
     IN \/ v = JStr(name)
        \/ v.t = "array" /\ \E j \in 1..Len(v.e) : v.e[j] = JStr(name)

ConflictTemplates ==
  {"Fixed column conflicts with original header in headerMappings",
   "Fixed column conflicts with mapped header in headerMappings"}

HasConflictError(errors, name) ==
  \E k \in 1..Len(errors) : errors[k].tmpl \in ConflictTemplates /\ errors[k].args = <<name>>

\* C18: with fixedColumns and headerMappings both present, validateConfiguration
\* reports a hard error for a fixed-column name, and so returns isValid = false,
\* exactly when the name is a key of headerMappings or one of its mapped names
\* (a string value or an element of a list value).
C18_FixedNameConflicts ==
  ( /\ op = "validateConfiguration"
    /\ pc = "done"
    /\ Get(cfg, "fixedColumns").t = "object"
    /\ Get(cfg, "headerMappings").t = "object" ) =>
    LET fixedColumns == Get(cfg, "fixedColumns")
        headerMappings == Get(cfg, "headerMappings")
    IN /\ \A i \in 1..Len(fixedColumns.e) :
            LET name == fixedColumns.e[i].k
            IN /\ HasConflictError(result.errors, name)
                    <=> (IsOriginalName(headerMappings, name) \/ IsMappedName(headerMappings, name))
               /\ HasConflictError(result.errors, name) => ~result.isValid
       /\ \A k \in 1..Len(result.errors) :
            result.errors[k].tmpl \in ConflictTemplates =>
              \E i \in 1..Len(fixedColumns.e) : result.errors[k].args = <<fixedColumns.e[i].k>>

\* A fixed column named like an element of a list value is the only problem of
\* the configuration, next to a fixed column that conflicts with nothing.
C18_Witness ==
  /\ op = "validateConfiguration"
  /\ pc = "done"
  /\ Get(cfg, "headerMappings") = JObj(<<JProp("a", JArr(<<JStr("d"), JStr("e")>>))>>)
  /\ ObjectKeys(Get(cfg, "fixedColumns")) = <<"e", "f">>
  /\ result.errors =
       <<Msg("Fixed column conflicts with mapped header in headerMappings", <<"e">>)>>
  /\ ~result.isValid

(* --------------------------------- C20 --------------------------------- *)

ContentFields ==
  {"headerMappings", "columnOrder", "valueReplacements", "fixedColumns", "deleteConditions"}

\* The field holds a value the validator takes as given: anything but
\* null, false, 0 and the empty string.
IsSet(config, field) == ToBoolean(Get(config, field))

HasEmptyWarning(r) == EmptyConfigurationWarning \in Range(r.warnings)

\* C20 as stated: validateConfiguration emits the empty-configuration warning
\* exactly when none of the five content fields is set, whether or not
\* outputEncoding is set, and the warning never makes the configuration invalid.
C20_EmptyWarning ==
  (op = "validateConfiguration" /\ pc = "done" /\ cfg.t \in {"object", "array"}) =>
    /\ HasEmptyWarning(result) <=> \A field \in ContentFields : ~IsSet(cfg, field)
    /\ HasEmptyWarning(result) => (result.isValid <=> result.errors = <<>>)

\* C20 amended: the warning is emitted exactly when none of the six fields,
\* outputEncoding included, is set; a configuration that sets only
\* outputEncoding gets no warning; the warning never makes the configuration
\* invalid.
C20_EmptyWarningSixFields ==
  (op = "validateConfiguration" /\ pc = "done" /\ cfg.t \in {"object", "array"}) =>
    /\ HasEmptyWarning(result)
         <=> \A field \in ContentFields \cup {"outputEncoding"} : ~IsSet(cfg, field)
    /\ HasEmptyWarning(result) => (result.isValid <=> result.errors = <<>>)

\* The empty document gets the warning and is valid.
C20_Witness ==
  /\ op = "validateConfiguration"
  /\ pc = "done"
  /\ cfg = JObj(<<>>)
  /\ result.warnings = <<EmptyConfigurationWarning>>
  /\ result.isValid

\* A document that sets only outputEncoding gets no warning.
C20_WitnessEncodingOnly ==
  /\ op = "validateConfiguration"
  /\ pc = "done"
  /\ cfg = JObj(<<JProp("outputEncoding", JStr("utf8"))>>)
  /\ result.warnings = <<>>
  /\ result.isValid

(* --------------------------------- C19 --------------------------------- *)

\* The names of the fixed columns that columnOrder does not list, in the
\* order of fixedColumns: the ones validateConfiguration warns about.
AbsentFixedNames(config) ==
  SelectSeq(FixedNames(config.fixedColumns), LAMBDA name : name \notin Range(config.columnOrder))

\* C19: with fixedColumns and columnOrder both configured, a fixed column
\* whose name columnOrder does not list is still in the table transform
\* returns, placed at the end after the columns columnOrder lists.
C19_AbsentFixedAtEnd ==
  ( /\ Completed("transform")
    /\ {"fixedColumns", "columnOrder"} \subseteq cfg.fields ) =>
    /\ Out.headers = cfg.columnOrder \o AbsentFixedNames(cfg)
    /\ \A k \in 1..Len(cfg.fixedColumns) :
          cfg.fixedColumns[k].name \notin Range(cfg.columnOrder) =>
            \A i \in 1..Len(Out.rows) :
               CellAt(Out.rows[i], ColumnOf(Out.headers, cfg.fixedColumns[k].name))
                 = String(cfg.fixedColumns[k])

\* transform returned a table without a fixed column that columnOrder left out.
C19_FixedColumnDropped ==
  /\ Completed("transform")
  /\ cfg.fixedColumns = <<FStr("f", "v"), FNum("k", 12)>>
  /\ cfg.columnOrder = <<"f", "d">>
  /\ Out.headers = <<"f", "d">>
  /\ Len(Out.rows) > 0

(* --------------------------------- C11 --------------------------------- *)

\* The delete conditions execute works with.
ConditionsOf(file) == AsDeleteConditions(Get(ConfigOf(file), "deleteConditions"))

\* The rows of a table that do not match every condition, the conditions
\* read against the headers of that table.
Survivors(t, conditions) ==
  [headers |-> t.headers,
   rows |-> SelectSeq(t.rows,
                      LAMBDA row : ~\A k \in 1..Len(conditions) :
                                      Matches(t.headers, row, conditions[k]))]

\* The stage directly before the given one among the stages called.
CalledBefore(name) ==
  IF \E k \in 2..Len(steps) : steps[k] = name
  THEN steps[(CHOOSE k \in 2..Len(steps) : steps[k] = name) - 1]
  ELSE ""

\* C11: in execute row deletion runs before transform and on the parsed
\* table: with delete conditions configured, deleteRows is the stage called
\* directly before transform, what transform receives is the parsed table
\* without the rows that match every condition, the conditions read against
\* the parsed (pre-mapping) headers, what the writer receives is the steps of
\* transform applied to those rows, and a condition on a name that is not a
\* parsed header, a post-mapping name included, makes execute reject after
\* deleteRows with the error that names the missing columns, transform not
\* being called.
C11_DeleteBeforeTransform ==
  op = "execute" =>
    LET conditions == ConditionsOf(cfg)
        deleted == IF conditions = <<>> THEN orig ELSE Survivors(orig, conditions)
        missing == {conditions[k].column : k \in 1..Len(conditions)} \ Range(orig.headers)
    IN /\ ("transform" \in Range(steps) /\ conditions # <<>>) =>
             CalledBefore("transform") = "deleteRows"
       /\ pc = "transform" => TableVal(heap, cur) = deleted
       /\ (pc = "write" /\ "transform" \in Range(steps)) =>
             TableVal(heap, cur) = Pipeline(deleted, AsConfig(ConfigOf(cfg)), DocumentedOrder).table
       /\ ("deleteRows" \in Range(steps) /\ missing # {}) =>
             /\ pc = "thrown"
             /\ steps[Len(steps)] = "deleteRows"
             /\ error.tmpl = "deleteMissing"
             /\ Range(error.names) = missing

\* execute has deleted a row by a condition on the original name of a column
\* that header mapping renames, kept another row, and handed the result on.
C11_Witness ==
  /\ op = "execute"
  /\ pc = "write"
  /\ steps = <<"parse", "load", "deleteRows", "transform">>
  /\ Get(Get(ConfigOf(cfg), "headerMappings"), "a") = JStr("d")
  /\ ConditionsOf(cfg) = <<Cond("a", FALSE, <<"x">>)>>
  /\ Len(orig.rows) = 2
  /\ Len(TableVal(heap, cur).rows) = 1
  /\ "d" \in Range(TableVal(heap, cur).headers)

\* A condition on the mapped name "d" of the column "a" has made execute reject.
C11_WitnessMappedName ==
  /\ op = "execute"
  /\ pc = "thrown"
  /\ Get(Get(ConfigOf(cfg), "headerMappings"), "a") = JStr("d")
  /\ Len(ConditionsOf(cfg)) = 1
  /\ ConditionsOf(cfg)[1].column = "d"
  /\ error.names = <<"d">>
  /\ "transform" \notin Range(steps)

(* --------------------------------- C12 --------------------------------- *)

\* The configuration file was read, parsed and validated without hard errors.
LoadedWithoutErrors(file) ==
  /\ file.kind = "json"
  /\ ~validateConfiguration(file.value).threw
  /\ validateConfiguration(file.value).errors = <<>>

\* What the stage, once called, meets: whether it fails, told from the
\* arguments of execute alone.
StageFails(name) ==
  LET conditions == ConditionsOf(cfg)
      deleted == IF conditions = <<>> THEN orig ELSE Survivors(orig, conditions)
  IN CASE name = "parse" -> data = NoRef
       [] name = "load" -> ~LoadedWithoutErrors(cfg)
       [] name = "deleteRows" -> ~AllColumnsExist(orig.headers, conditions)
       [] name = "transform" ->
            ~Pipeline(deleted, AsConfig(ConfigOf(cfg)), DocumentedOrder).ok
       [] OTHER -> FALSE

\* C12: in execute the writer is called only after parsing succeeded, the
\* configuration of a given path was loaded and validated without hard
\* errors, and deletion and transformation succeeded; a stage that fails is
\* the last stage called, and execute rejects with a CSVConverterError.
C12_ValidationGates ==
  op = "execute" =>
    /\ "write" \in Range(steps) =>
         /\ steps[1] = "parse" /\ orig \in ParsedTables /\ data # NoRef
         /\ (cfg.kind # "none") => ("load" \in Range(steps) /\ LoadedWithoutErrors(cfg))
         /\ \A k \in 1..Len(steps) :
               steps[k] \in {"deleteRows", "transform"} => ~StageFails(steps[k])
    /\ \A k \in 1..Len(steps) :
          StageFails(steps[k]) =>
            /\ k = Len(steps)
            /\ pc = "thrown"
            /\ IsCSVConverterError(error)
            /\ result = NoRef

\* Every stage up to the writer has been called, with a configuration that
\* has warnings and no errors.
C12_Witness ==
  /\ op = "execute"
  /\ steps = <<"parse", "load", "deleteRows", "transform", "write">>
  /\ pc = "encode"
  /\ validateConfiguration(cfg.value).warnings # <<>>
  /\ result = cur

\* The validator has reported a hard error: execute has rejected after load.
C12_WitnessRejected ==
  /\ op = "execute"
  /\ cfg.kind = "json"
  /\ ~validateConfiguration(cfg.value).threw
  /\ validateConfiguration(cfg.value).errors # <<>>
  /\ steps = <<"parse", "load">>
  /\ pc = "thrown"
  /\ error.code = "VALIDATION_ERROR"

\* transform has failed on a validated configuration: the writer is not called.
C12_WitnessTransformFailed ==
  /\ op = "execute"
  /\ steps = <<"parse", "load", "deleteRows", "transform">>
  /\ pc = "thrown"
  /\ error.code = "MISSING_COLUMN"

(* --------------------------------- C13 --------------------------------- *)

\* The members of ErrorCode.
ErrorCodes ==
  {"FILE_NOT_FOUND", "FILE_ACCESS_DENIED", "INVALID_CSV_FORMAT", "INVALID_CONFIGURATION",
   "MISSING_COLUMN", "TRANSFORMATION_ERROR", "OUTPUT_ERROR", "VALIDATION_ERROR",
   "UNKNOWN_ERROR"}

C13_WitnessDeleteRows ==
  /\ op = "deleteRows"
  /\ pc = "thrown"
  /\ JNull \in Range(Get(cfg, "deleteConditions").e)
  /\ error = handleTransformationError("TypeError", <<>>)

\* The read stream of the parser has failed: execute rejects with UNKNOWN_ERROR.
C13_WitnessExecute ==
  /\ op = "execute"
  /\ pc = "thrown"
  /\ steps = <<"parse">>
  /\ error.code = "UNKNOWN_ERROR"

(* --------------------------------- C27 --------------------------------- *)

\* C27: deleteRows called with an empty list of conditions removes no row:
\* it returns the headers and the rows of the input table, in their order.
C27_EmptyConditionsKeepRows ==
  (op = "deleteRows" /\ ~mutated /\ cfg.deleteConditions = <<>>) =>
    /\ pc = "done"
    /\ Out.headers = orig.headers
    /\ Out.rows = orig.rows

\* deleteRows has been given no condition and a table with rows, and has
\* returned a table without rows.
C27_AllRowsRemoved ==
  /\ Completed("deleteRows")
  /\ cfg.deleteConditions = <<>>
  /\ orig.rows # <<>>
  /\ Out.headers = orig.headers
  /\ Out.rows = <<>>

(* --------------------------------- C21 --------------------------------- *)

\* An object with a non-blank string column, a value that is a string or a
\* non-empty list of strings, and no other property.
IsWellFormedCondition(c) ==
  /\ c.t = "object"
  /\ Get(c, "column").t = "string"
  /\ Trim(Get(c, "column").s) # ""
  /\ \/ Get(c, "value").t = "string"
     \/ /\ Get(c, "value").t = "array"
        /\ Get(c, "value").e # <<>>
        /\ \A j \in 1..Len(Get(c, "value").e) : Get(c, "value").e[j].t = "string"
  /\ \A k \in 1..Len(c.e) : c.e[k].k \in {"column", "value"}

\* The errors that quote the index i (from 0) of a condition.
ErrorsAtIndex(errors, i) ==
  {m \in Range(errors) : m.args # <<>> /\ m.args[1] = NumToStr(i)}

\* C21: validateDeleteConditions accepts a value exactly when it is undefined
\* or a list of well-formed conditions; a condition of the list has an error
\* that quotes its index exactly when it is not well formed; and every
\* property of a condition other than column and value is named in an error
\* of that condition.
C21_DeleteConditionsAccepted ==
  (pc = "done" /\ op = "validateDeleteConditions") =>
    /\ result.isValid <=>
         \/ cfg.t = "undefined"
         \/ cfg.t = "array" /\ \A i \in 1..Len(cfg.e) : IsWellFormedCondition(cfg.e[i])
    /\ cfg.t = "array" =>
         \A i \in 1..Len(cfg.e) :
            /\ ~IsWellFormedCondition(cfg.e[i]) <=> ErrorsAtIndex(result.errors, i - 1) # {}
            /\ cfg.e[i].t = "object" =>
                 \A k \in 1..Len(cfg.e[i].e) :
                    cfg.e[i].e[k].k \notin {"column", "value"} =>
                      Msg("deleteConditions[i] contains unexpected property",
                          <<NumToStr(i - 1), cfg.e[i].e[k].k>>) \in Range(result.errors)

\* A list with an empty-string value and a list value of one empty string
\* has been accepted.
C21_Witness ==
  /\ pc = "done"
  /\ op = "validateDeleteConditions"
  /\ cfg.t = "array"
  /\ Len(cfg.e) = 2
  /\ Get(cfg.e[1], "value") = JStr("")
  /\ Get(cfg.e[2], "value") = JArr(<<JStr("")>>)
  /\ result.isValid

\* The second condition is well formed but for the property extra, which
\* the one error names together with the index 1.
C21_WitnessExtraProperty ==
  /\ pc = "done"
  /\ op = "validateDeleteConditions"
  /\ cfg.t = "array"
  /\ Len(cfg.e) = 2
  /\ IsWellFormedCondition(cfg.e[1])
  /\ result.errors = <<Msg("deleteConditions[i] contains unexpected property", <<"1", "extra">>)>>

(* --------------------------------- C25 --------------------------------- *)

\* deleteRows with the conditions on a table with the given headers.
DeleteRowsOn(headers, row, conditions) ==
  RunOp("deleteRows", [headers |-> headers, rows |-> <<row>>],
        Cfg({"deleteConditions"}, <<>>, <<>>, <<>>, <<>>, AsDeleteConditions(conditions)))

\* deleteRows has failed with the error that names the missing columns.
IsMissingColumnFailure(r) == ~r.ok /\ r.err.tmpl = "deleteMissing"

\* C25: for a list of conditions whose columns are non-blank strings,
\* validateDeleteConditionsWithHeaders is valid exactly when deleteRows on a
\* table with the same headers does not fail with the missing-column error,
\* and it has an error quoting the index of a condition exactly when the
\* column of that condition is among those the error of deleteRows names.
C25_CrossCheckAgrees ==
  (pc = "done" /\ op = "validateDeleteConditionsWithHeaders" /\ cfg.t = "array") =>
    LET r == DeleteRowsOn(orig.headers, [k \in 1..Len(orig.headers) |-> "x"], cfg)
    IN /\ result.isValid <=> ~IsMissingColumnFailure(r)
       /\ \A i \in 1..Len(cfg.e) :
             ErrorsAtIndex(result.errors, i - 1) # {}
               <=> /\ IsMissingColumnFailure(r)
                   /\ Get(cfg.e[i], "column").s \in Range(r.err.names)

\* Of three conditions the first and the third name columns the table has
\* not: both are reported, and deleteRows names the same two columns.
C25_Witness ==
  /\ pc = "done"
  /\ op = "validateDeleteConditionsWithHeaders"
  /\ orig.headers = <<"a", "b">>
  /\ cfg.t = "array"
  /\ Len(cfg.e) = 3
  /\ Len(result.errors) = 2
  /\ ErrorsAtIndex(result.errors, 1) = {}
  /\ DeleteRowsOn(orig.headers, <<"x", "x">>, cfg).err.names = <<"z", "w">>

\* Every column exists: the cross-check is valid and deleteRows returns.
C25_WitnessValid ==
  /\ pc = "done"
  /\ op = "validateDeleteConditionsWithHeaders"
  /\ cfg.t = "array"
  /\ Len(cfg.e) = 2
  /\ result.isValid
  /\ DeleteRowsOn(orig.headers, [k \in 1..Len(orig.headers) |-> "x"], cfg).ok

(* --------------------------------- C24 --------------------------------- *)

\* C24: an error that reports configured columns as missing from the table,
\* the columnOrder error of reorderColumns and the delete-condition error of
\* deleteRows, carries the code MISSING_COLUMN; the fixed-column collision
\* carries TRANSFORMATION_ERROR.
C24_MissingColumnCode ==
  pc = "thrown" =>
    /\ error.tmpl \in {"columnOrderMissing", "deleteMissing"} => error.code = "MISSING_COLUMN"
    /\ error.tmpl = "fixedDuplicate" => error.code = "TRANSFORMATION_ERROR"

\* reorderColumns has reported a missing column with the code MISSING_COLUMN.
C24_ReorderMissingColumn ==
  /\ op = "reorderColumns"
  /\ pc = "thrown"
  /\ error.names = <<"z">>
  /\ error.code = "MISSING_COLUMN"

\* deleteRows has reported a missing column with the code TRANSFORMATION_ERROR.
C24_DeleteMissingColumn ==
  /\ op = "deleteRows"
  /\ pc = "thrown"
  /\ error.tmpl = "deleteMissing"
  /\ error.names = <<"z">>
  /\ error.code = "TRANSFORMATION_ERROR"

(* --------------------------------- C26 --------------------------------- *)

EngineOperations ==
  {"deleteRows", "mapHeaders", "addFixedColumns", "reorderColumns", "replaceValues", "transform"}

\* C26: when every row of the input table has as many cells as the table has
\* headers and the operation returns, every row of the returned table has as
\* many cells as the returned table has headers.
C26_Rectangular ==
  (op \in EngineOperations /\ pc = "done" /\ ~mutated /\ IsRectangular(orig)) =>
    IsRectangular(Out)

\* transform has mapped the header b to two, added two fixed columns and
\* kept two of the five columns: the returned table has rows.
C26_Witness ==
  /\ Completed("transform")
  /\ {"mapHeaders", "addFixedColumns", "reorderColumns"} \subseteq Range(steps)
  /\ orig.headers = <<"a", "b">>
  /\ cfg.headerMappings = <<Many("b", <<"d", "e">>)>>
  /\ Len(cfg.fixedColumns) = 2
  /\ Out.headers = <<"f", "d">>
  /\ Len(Out.rows) = MaxRows

\* A direct call of mapHeaders on a rectangular table with rows has widened it.
C26_WitnessMapHeaders ==
  /\ Completed("mapHeaders")
  /\ IsRectangular(orig)
  /\ Len(orig.rows) = MaxRows
  /\ Len(Out.headers) > Len(orig.headers)

(* --------------------------------- C22 --------------------------------- *)

\* The cells of the column of the given name in the returned table.
ColumnCells(name) ==
  {CellAt(Out.rows[i], ColumnOf(Out.headers, name)) : i \in 1..Len(Out.rows)}

\* C22: when transform returns, every cell of each fixed column that is among
\* the returned headers is the string form of the constant configured for it.
C22_FixedConstant ==
  (Completed("transform") /\ "fixedColumns" \in cfg.fields) =>
    \A k \in 1..Len(cfg.fixedColumns) :
       cfg.fixedColumns[k].name \in Range(Out.headers) =>
         ColumnCells(cfg.fixedColumns[k].name) \subseteq {String(cfg.fixedColumns[k])}

\* The fixed column f is configured with "v" and valueReplacements maps "v"
\* to "w" in column f: the returned column holds "w".
C22_FixedValueReplaced ==
  /\ Completed("transform")
  /\ steps = <<"addFixedColumns", "replaceValues">>
  /\ cfg.fixedColumns = <<FStr("f", "v"), FNum("k", 12)>>
  /\ cfg.valueReplacements = <<ColRep("f", <<Rep("v", "w")>>)>>
  /\ ColumnCells("f") = {"w"}

\* Without an entry of valueReplacements for a fixed column its cells are
\* the configured constant.
C22_ConstantUnlessReplaced ==
  (Completed("transform") /\ "fixedColumns" \in cfg.fields) =>
    \A k \in 1..Len(cfg.fixedColumns) :
       ( /\ cfg.fixedColumns[k].name \in Range(Out.headers)
         /\ \A j \in 1..Len(cfg.valueReplacements) :
               cfg.valueReplacements[j].column # cfg.fixedColumns[k].name )
         => ColumnCells(cfg.fixedColumns[k].name) \subseteq {String(cfg.fixedColumns[k])}

(* --------------------------------- C30 --------------------------------- *)

\* transform returned a table for a configuration validateConfiguration
\* accepted.
TransformedAccepted ==
  /\ op = "transform"
  /\ pc = "done"
  /\ IsAccepted(cfg)

\* The value of columnOrder is absent or lists at least one column.
OrderKeepsColumn(config) ==
  ~ToBoolean(Get(config, "columnOrder")) \/ Get(config, "columnOrder").e # <<>>

C30_EmptyOrderAccepted ==
  /\ TransformedAccepted
  /\ Len(orig.headers) > 0
  /\ Get(cfg, "columnOrder") = JArr(<<>>)
  /\ Out.headers = <<>>
  /\ validateCSVData(Out) = handleValidationError("CSV must have at least one header column")

MappedNames(config, headers) ==
  IF ToBoolean(Get(config, "headerMappings"))
  THEN MapHeaderNames(headers, AsHeaderMappings(Get(config, "headerMappings")))
  ELSE headers

\* C29 as stated: for a table with pairwise distinct headers and an accepted
\* configuration, the table a successful transform returns has pairwise
\* distinct headers.
C29_UniquenessPreserved ==
  (TransformedAccepted /\ IsDistinct(orig.headers)) => IsDistinct(Out.headers)

\* An accepted mapping of a onto the name of the unmapped column b: transform
\* returns two columns named b.
C29_MappedOntoHeader ==
  /\ TransformedAccepted
  /\ orig.headers = <<"a", "b">>
  /\ Get(cfg, "headerMappings") = JObj(<<JProp("a", JStr("b"))>>)
  /\ Get(cfg, "columnOrder") = JUndefined
  /\ Out.headers = <<"b", "b">>

\* C29 amended: for a table with pairwise distinct headers and an accepted
\* configuration, the table a successful transform returns has pairwise
\* distinct headers exactly when columnOrder is set or the names header
\* mapping gives the columns of the table are pairwise distinct.
C29_UniqueIffMappedUnique ==
  (TransformedAccepted /\ IsDistinct(orig.headers))
    => (IsDistinct(Out.headers)
          <=> (ToBoolean(Get(cfg, "columnOrder"))
                 \/ IsDistinct(MappedNames(cfg, orig.headers))))

C29_Witness ==
  /\ TransformedAccepted
  /\ orig.headers = <<"a", "b">>
  /\ Get(cfg, "headerMappings") = JObj(<<JProp("b", JArr(<<JStr("d"), JStr("e")>>))>>)
  /\ Get(cfg, "fixedColumns") = JObj(<<JProp("f", JStr("v"))>>)
  /\ Get(cfg, "columnOrder") = JUndefined
  /\ Out.headers = <<"a", "d", "e", "f">>

\* columnOrder makes the headers distinct again after a mapping onto the
\* name of another column.
C29_WitnessReordered ==
  /\ TransformedAccepted
  /\ orig.headers = <<"a", "b">>
  /\ Get(cfg, "headerMappings") = JObj(<<JProp("a", JStr("b"))>>)
  /\ Get(cfg, "columnOrder") = JArr(<<JStr("b")>>)
  /\ Out.headers = <<"b">>

(* --------------------------------- C28 --------------------------------- *)

\* transform threw the fixed-column collision error for a configuration
\* validateConfiguration accepted.
CollisionOnAccepted ==
  /\ op = "transform"
  /\ pc = "thrown"
  /\ IsAccepted(cfg)
  /\ error.tmpl = "fixedDuplicate"

\* The keys and the mapped names of headerMappings, none when it is not set.
MappingKeys(config) ==
  IF ToBoolean(Get(config, "headerMappings"))
  THEN OriginalHeaders(Get(config, "headerMappings"))
  ELSE {}

IntroducedNames(config) ==
  IF ToBoolean(Get(config, "headerMappings"))
  THEN {v.s : v \in Range(MappedHeaders(Get(config, "headerMappings")))}
  ELSE {}

\* C28: when transform throws the fixed-column collision error for an
\* accepted configuration, every colliding name is a fixed column that
\* equals a header of the input table which is not a key of headerMappings,
\* and none is a name introduced by header mapping.
C28_CollisionOnlyWithUnmappedHeader ==
  CollisionOnAccepted
    => /\ error.code = "TRANSFORMATION_ERROR"
       /\ error.names # <<>>
       /\ \A name \in Range(error.names) :
             /\ name \in Range(ObjectKeys(Get(cfg, "fixedColumns")))
             /\ name \in Range(orig.headers)
             /\ name \notin MappingKeys(cfg)
             /\ name \notin IntroducedNames(cfg)

\* A fixed column named like the unmapped header a, next to a mapping of b.
C28_Witness ==
  /\ CollisionOnAccepted
  /\ orig.headers = <<"a", "b">>
  /\ Get(cfg, "headerMappings") = JObj(<<JProp("b", JArr(<<JStr("d"), JStr("e")>>))>>)
  /\ Get(cfg, "fixedColumns") = JObj(<<JProp("a", JNum(7))>>)
  /\ error.names = <<"a">>

\* The same without header mappings.
C28_WitnessNoMappings ==
  /\ CollisionOnAccepted
  /\ Get(cfg, "headerMappings") = JUndefined
  /\ Get(cfg, "fixedColumns") = JObj(<<JProp("b", JStr("v"))>>)
  /\ error.names = <<"b">>

(* --------------------------------- C23 --------------------------------- *)

\* The latest execute call.
LatestCall == cfg[Len(cfg)]

DebugEntries == {i \in 1..Len(steps) : steps[i].level = LogLevel.DEBUG}

\* C23 as stated: an execute called with verbose = false emits no
\* DEBUG-level entry, whatever calls were made before it.
C23_QuietWithoutVerbose ==
  (op = "execute" /\ ~LatestCall.verbose) => DebugEntries = {}

\* An execute with verbose = true on one app has finished; a later execute
\* with verbose = false on the other app has emitted its DEBUG entries.
C23_DebugAfterVerboseCall ==
  /\ op = "execute"
  /\ pc = "idle"
  /\ Len(cfg) = 2
  /\ cfg[1].verbose
  /\ ~cfg[2].verbose
  /\ cfg[1].app # cfg[2].app
  /\ Cardinality(DebugEntries) = 2

\* What the code does: the level in effect is DEBUG from the first verbose
\* call of the process on, and INFO before it.
C23_LevelFromAllCalls ==
  op = "execute"
    => cur = (IF \E i \in 1..Len(cfg) : cfg[i].verbose
              THEN LogLevel.DEBUG ELSE LogLevel.INFO)

====
